---- MODULE Spec2Model ----
(***************************************************************************)
(* Verification model of the Premier League ETL pipeline:                  *)
(*   - extract.py   BaseAPIExtractor._make_request and the two fetch()s    *)
(*   - transform.py DataValidator and the two transformers                 *)
(*   - load.py      ErrorTracker (the shared error accumulator),           *)
(*                  BigQueryLoader.load, EmailAlerter                      *)
(*   - metrics.py   MetricsTracker                                         *)
(*   - main.py      the orchestration of the two sources                   *)
(*                                                                         *)
(* JSON values are tagged records: null, int, str, dict (a function from   *)
(* key strings to values) and list (a sequence of values).  A key that is  *)
(* absent from a dict is absent from the DOMAIN of the function.           *)
(***************************************************************************)
EXTENDS Integers, Sequences, FiniteSets, TLC

VARIABLES
    errors,           \* ErrorTracker.errors: category -> sequence of messages
    metrics,          \* MetricsTracker.metrics counters
    metrics_tracker,  \* TRUE iff a MetricsTracker is injected in the extractors
    resource,         \* the resource the fetches ask for: "teams" or "standings"
    calls,            \* number of fetch calls started so far
    api_name,         \* api_name of the extractor whose fetch is running
    fpc,              \* position in fetch: idle, request, sleep, returned, raised
    attempt,          \* loop variable of _make_request (0-based)
    trace,            \* requests and sleeps of the running fetch, in order
    errors_at_call,   \* value of errors when the running fetch was called
    mr_result,        \* how _make_request ended: return value or exception
    fetch_result,     \* how fetch ended: return value or exception
    source,           \* the transformer that runs: "API-Sports" or "API-Football"
    teams_data,       \* transform's argument teams_data
    standings_data,   \* transform's argument standings_data
    tpc,              \* position in transform: start, loop, returned, raised
    idx,              \* 1-based position of the for loop over the team entries
    standings_lookup, \* the dict built from the standings payload
    transformed,      \* the list of records accumulated so far
    skipped_count,    \* the skip counter
    output_file,      \* the audit file named by transform's argument output_file
    transform_result, \* how transform ended: return value or exception
    first_call,       \* how the previous transform call on the same arguments ended
    v_record,         \* the record handed to validate_team_record
    v_verdict,        \* what validate_team_record returned (is_valid, missing)
    chk,              \* the DataValidator check that is called
    chk_args,         \* the arguments of that call
    chk_outcome,      \* how the check ended: return value or exception
    mpc,              \* position in main: the step that runs next
    m_source,         \* the source main is processing
    api_sports_success,   \* main's flag of the same name
    api_football_success, \* main's flag of the same name
    m_teams_data,     \* main's local teams_data
    m_standings_data, \* main's local standings_data
    m_df,             \* the table returned by transform to main
    csv_files,        \* source -> content of its CSV export (or not written)
    tables,           \* source -> content loaded into its warehouse table
    notifications,    \* the status notifications issued, in order
    metrics_rows,     \* the rows persisted to the metrics table, in order
    m_log,            \* the steps main attempted, in order, each with its outcome
    main_result       \* how main ended: return value or exception

fetchVars == <<metrics, metrics_tracker, resource, calls, api_name, fpc, attempt,
               trace, errors_at_call, mr_result, fetch_result>>

transVars == <<source, teams_data, standings_data, tpc, idx, standings_lookup,
               transformed, skipped_count, output_file, transform_result, first_call>>

valVars == <<v_record, v_verdict>>

chkVars == <<chk, chk_args, chk_outcome>>

mainVars == <<mpc, m_source, api_sports_success, api_football_success, m_teams_data,
              m_standings_data, m_df, csv_files, tables, notifications, metrics_rows,
              m_log, main_result>>

(***************************************************************************)
(* Bounds of the model.                                                    *)
(***************************************************************************)
MaxCalls == 2
MaxTeams == 2
MaxStandings == 2

(***************************************************************************)
(* JSON values.                                                            *)
(***************************************************************************)
JNull == [t |-> "null"]
JInt(n) == [t |-> "int", n |-> n]
JStr(s) == [t |-> "str", s |-> s]
JDict(d) == [t |-> "dict", d |-> d]
JList(l) == [t |-> "list", l |-> l]

EmptyDict == JDict(<<>>)

\* Python truthiness: bool(v)
Truthy(v) ==
    CASE v.t = "null" -> FALSE
      [] v.t = "int"  -> v.n # 0
      [] v.t = "str"  -> v.s # ""
      [] v.t = "dict" -> DOMAIN v.d # {}
      [] v.t = "list" -> Len(v.l) > 0

\* isinstance(v, dict), isinstance(v, list)
IsDict(v) == v.t = "dict"
IsList(v) == v.t = "list"

\* The outcome of evaluating a Python expression: a value or an exception.
Val(v) == [ok |-> TRUE, v |-> v]
Exc(e) == [ok |-> FALSE, exc |-> e]

\* c[k] for a string key k.  JSON strings are leaves of the payloads: a
\* string used as a container is outside the modelled inputs (no arm).
Item(c, k) ==
    CASE c.t = "dict" -> IF k \in DOMAIN c.d THEN Val(c.d[k]) ELSE Exc("KeyError")
      [] c.t \in {"list", "null", "int"} -> Exc("TypeError")

\* c[0]
First(c) ==
    CASE c.t = "list" -> IF Len(c.l) > 0 THEN Val(c.l[1]) ELSE Exc("IndexError")
      [] c.t = "dict" -> Exc("KeyError")
      [] c.t \in {"null", "int"} -> Exc("TypeError")

\* k in c for a string key k: a key of a dict, an element of a list
In(k, c) ==
    CASE c.t = "dict" -> Val(k \in DOMAIN c.d)
      [] c.t = "list" -> Val(\E i \in 1..Len(c.l) : c.l[i] = JStr(k))
      [] c.t \in {"null", "int"} -> Exc("TypeError")

\* c.get(k, default): only a dict has get
GetOr(c, k, default) ==
    IF c.t = "dict"
    THEN Val(IF k \in DOMAIN c.d THEN c.d[k] ELSE default)
    ELSE Exc("AttributeError")

\* c.get(k)
Get(c, k) == GetOr(c, k, JNull)

\* The decimal literals int() is applied to in the model.
IntLiterals == {"-1", "0", "1", "2", "3", "1886", "60000"}
IntOfLiteral(s) ==
    CASE s = "-1" -> 0 - 1
      [] s = "0" -> 0
      [] s = "1" -> 1
      [] s = "2" -> 2
      [] s = "3" -> 3
      [] s = "1886" -> 1886
      [] s = "60000" -> 60000

\* int(v)
ToInt(v) ==
    CASE v.t = "int" -> Val(v.n)
      [] v.t = "str" -> IF v.s \in IntLiterals THEN Val(IntOfLiteral(v.s))
                        ELSE Exc("ValueError")
      [] v.t \in {"null", "dict", "list"} -> Exc("TypeError")

\* hash(v): dicts and lists are unhashable
Hashable(v) == v.t \in {"null", "int", "str"}

(***************************************************************************)
(* The error accumulator (load.py, ErrorTracker).                          *)
(***************************************************************************)
Categories == {"api_sports", "api_football", "validation", "transformation", "load"}

NoErrors == [c \in Categories |-> <<>>]

\* self.errors[category].append(message)
AppendError(errs, category, message) ==
    [errs EXCEPT ![category] = Append(@, message)]

\* ErrorTracker.get_total_errors
RECURSIVE SumLen(_, _)
SumLen(errs, cats) ==
    IF cats = {} THEN 0
    ELSE LET c == CHOOSE x \in cats : TRUE
         IN Len(errs[c]) + SumLen(errs, cats \ {c})

get_total_errors(errs) == SumLen(errs, Categories)

(***************************************************************************)
(* The metrics accumulator (metrics.py, MetricsTracker).                   *)
(***************************************************************************)
InitMetrics ==
    [api_sports_calls |-> 0, api_football_calls |-> 0,
     api_sports_errors |-> 0, api_football_errors |-> 0,
     teams_processed_api_sports |-> 0, teams_processed_api_football |-> 0,
     total_errors |-> 0]

\* MetricsTracker.record_api_call (the latency sum is not modelled)
record_api_call(m, api_key) ==
    IF api_key = "api_sports"
    THEN [m EXCEPT !.api_sports_calls = @ + 1]
    ELSE IF api_key = "api_football"
    THEN [m EXCEPT !.api_football_calls = @ + 1]
    ELSE m

\* Faulty variant of record_error: total_errors is left as it is.
record_error_untotalled(m, api_key) ==
    IF api_key = "api_sports"
    THEN [m EXCEPT !.api_sports_errors = @ + 1]
    ELSE IF api_key = "api_football"
    THEN [m EXCEPT !.api_football_errors = @ + 1]
    ELSE m

\* MetricsTracker.record_error
record_error(m, api_key) ==
    LET m1 == IF api_key = "api_sports"
              THEN [m EXCEPT !.api_sports_errors = @ + 1]
              ELSE IF api_key = "api_football"
              THEN [m EXCEPT !.api_football_errors = @ + 1]
              ELSE m
    IN [m1 EXCEPT !.total_errors = @ + 1]

(***************************************************************************)
(* Extractors (extract.py).                                                *)
(***************************************************************************)
max_retries == 3

ApiNames == {"API-Sports", "API-Football"}
Resources == {"teams", "standings"}

\* base_url of the two fetch methods
BaseUrl(api) ==
    IF api = "API-Sports" THEN "https://v3.football.api-sports.io/"
    ELSE "https://apiv3.apifootball.com/"

\* The url handed to _make_request: base_url + endpoint for API-Sports, the
\* bare base_url for API-Football (the action travels in the parameters).
Url(api, res) ==
    IF api = "API-Sports" THEN [base |-> BaseUrl(api), path |-> res]
    ELSE [base |-> BaseUrl(api), path |-> ""]

\* "api-sports" in url
ContainsApiSports(url) == url.base = "https://v3.football.api-sports.io/"

\* api_key = "api_sports" if "api-sports" in url else "api_football"
ApiKey(url) == IF ContainsApiSports(url) THEN "api_sports" ELSE "api_football"

\* Faulty variant of ErrorKey: every extractor files under api_sports.
ErrorKeyShared(api) == "api_sports"

\* self.api_name.lower().replace('-', '_')
ErrorKey(api) ==
    IF api = "API-Sports" THEN "api_sports"
    ELSE IF api = "API-Football" THEN "api_football"
    ELSE api

\* What one requests.get + raise_for_status + json + save can do.
HttpStatuses == {404, 500}
ResponsePayloads ==
    { JDict([response |-> JList(<<>>)]),
      JList(<<JDict([team_key |-> JStr("1"), players |-> JList(<<JStr("p")>>)]),
              JDict([team_key |-> JStr("2")])>>),
      JList(<<JStr("x")>>) }
Outcomes ==
    [kind : {"ok"}, data : ResponsePayloads]
    \cup [kind : {"save_error"}, data : ResponsePayloads]
    \cup [kind : {"timeout", "connection", "unexpected"}]
    \cup [kind : {"http"}, status : HttpStatuses]

\* Faulty variant of IsTransient: HTTP status errors are retried as well.
IsTransientOrHttp(kind) == kind \in {"timeout", "connection", "http"}

\* The except clauses that fall through to the retry logic (lines 77-93).
IsTransient(kind) == kind \in {"timeout", "connection"}

\* The exception class an outcome raises inside the try block.
ExcOf(o) ==
    CASE o.kind = "timeout"    -> "Timeout"
      [] o.kind = "connection" -> "ConnectionError"
      [] o.kind = "http"       -> "HTTPError"
      [] o.kind = "unexpected" -> "Exception"
      [] o.kind = "save_error" -> "OSError"

\* The message each except clause appends to the error accumulator.
ErrorMessage(o, att, url) ==
    CASE o.kind = "timeout" ->
            [msg |-> "Timeout attempt", attempt |-> att + 1, url |-> url]
      [] o.kind = "connection" ->
            [msg |-> "Connection error attempt", attempt |-> att + 1, url |-> url]
      [] o.kind = "http" ->
            [msg |-> "HTTP", status |-> o.status, url |-> url]
      [] OTHER ->
            [msg |-> "Unexpected", e |-> ExcOf(o)]

\* Faulty variant of wait_time: the 0-based attempt index is used as it is.
wait_time_zero_based(att) == 5 * att

\* wait_time = 5 * (attempt + 1)
wait_time(att) == 5 * (att + 1)

\* Faulty variant of RetryAllowed: the loop gives up one attempt early.
RetryAllowedEarly(att) == att < max_retries - 2

\* if attempt < max_retries - 1: sleep and loop, else: raise
RetryAllowed(att) == att < max_retries - 1

\* The bare raise of line 120 runs after the except clause has ended, with
\* no exception being handled: Python raises RuntimeError("No active
\* exception to reraise").
ExhaustedExc == "RuntimeError"

NoResult == [kind |-> "none"]
Return(v) == [kind |-> "return", data |-> v]
Raise(e) == [kind |-> "raise", exc |-> e]

\* APIFootballExtractor.fetch, lines 173-176: team.pop("players", None) for
\* every team of a get_teams list; an element that is no dict has no pop.
WithoutPlayers(team) ==
    JDict([k \in DOMAIN team.d \ {"players"} |-> team.d[k]])

\* The loop stops at the first element that is no dict: a list has a pop
\* that takes one argument (TypeError), any other value has none
\* (AttributeError).
StripPlayers(api, res, data) ==
    IF api = "API-Football" /\ res = "teams" /\ IsList(data)
    THEN LET bad == {i \in 1..Len(data.l) : ~IsDict(data.l[i])}
             first == CHOOSE i \in bad : \A j \in bad : i <= j
         IN  IF bad = {}
             THEN Return(JList([i \in 1..Len(data.l) |-> WithoutPlayers(data.l[i])]))
             ELSE IF IsList(data.l[first]) THEN Raise("TypeError")
             ELSE Raise("AttributeError")
    ELSE Return(data)

\* A caller invokes fetch of one of the two extractors.
Call(api) ==
    /\ fpc \in {"idle", "returned", "raised"}
    /\ calls < MaxCalls
    /\ calls' = calls + 1
    /\ api_name' = api
    /\ fpc' = "request"
    /\ attempt' = 0
    /\ trace' = <<>>
    /\ errors_at_call' = errors
    /\ mr_result' = NoResult
    /\ fetch_result' = NoResult
    /\ UNCHANGED <<errors, metrics, metrics_tracker, resource, transVars, valVars,
                   chkVars, mainVars>>

\* One pass through the try block of _make_request and its except clauses.
Request(o) ==
    LET url == Url(api_name, resource)
        key == ApiKey(url)
        failed == AppendError(errors, ErrorKey(api_name), ErrorMessage(o, attempt, url))
        called == IF metrics_tracker /\ o.kind \in {"ok", "save_error"}
                  THEN record_api_call(metrics, key) ELSE metrics
        counted == IF metrics_tracker THEN record_error(called, key) ELSE called
    IN
    /\ fpc = "request"
    /\ trace' = Append(trace, [ev |-> "request", attempt |-> attempt + 1, outcome |-> o])
    /\ IF o.kind = "ok"
       THEN /\ errors' = errors
            /\ metrics' = called
            /\ mr_result' = Return(o.data)
            /\ fetch_result' = StripPlayers(api_name, resource, o.data)
            /\ fpc' = IF fetch_result'.kind = "return" THEN "returned" ELSE "raised"
       ELSE /\ errors' = failed
            /\ metrics' = counted
            /\ IF IsTransient(o.kind)
               THEN IF RetryAllowed(attempt)
                    THEN /\ fpc' = "sleep"
                         /\ UNCHANGED <<mr_result, fetch_result>>
                    ELSE /\ fpc' = "raised"
                         /\ mr_result' = Raise(ExhaustedExc)
                         /\ fetch_result' = Raise(ExhaustedExc)
               ELSE /\ fpc' = "raised"
                    /\ mr_result' = Raise(ExcOf(o))
                    /\ fetch_result' = Raise(ExcOf(o))
    /\ UNCHANGED <<metrics_tracker, resource, calls, api_name, attempt, errors_at_call,
                   transVars, valVars, chkVars, mainVars>>

\* time.sleep(wait_time), then the next iteration of the for loop.
Sleep ==
    /\ fpc = "sleep"
    /\ trace' = Append(trace, [ev |-> "sleep", secs |-> wait_time(attempt)])
    /\ attempt' = attempt + 1
    /\ fpc' = "request"
    /\ UNCHANGED <<errors, metrics, metrics_tracker, resource, calls, api_name,
                   errors_at_call, mr_result, fetch_result, transVars, valVars, chkVars, mainVars>>

(***************************************************************************)
(* DataValidator (transform.py).  Each check takes the accumulator and     *)
(* returns its verdict with the accumulator it leaves.                     *)
(***************************************************************************)
Verdict(valid, errs) == [valid |-> valid, errors |-> errs]

Invalid(errs, message) == Verdict(FALSE, AppendError(errs, "validation", message))

ItemR(r, k) == IF r.ok THEN Item(r.v, k) ELSE r
FirstR(r) == IF r.ok THEN First(r.v) ELSE r

\* DataValidator.validate_api_sports_response
validate_api_sports_response(errs, data, data_type) ==
    LET src == "API-Sports"
        has == In("response", data)
        resp == Item(data, "response")
    IN  IF ~Truthy(data)
        THEN Invalid(errs, [src |-> src, type |-> data_type, msg |-> "Empty response"])
        ELSE IF ~has.ok
        THEN Invalid(errs, [src |-> src, type |-> data_type, msg |-> "exception", e |-> has.exc])
        ELSE IF ~has.v
        THEN Invalid(errs, [src |-> src, type |-> data_type, msg |-> "Missing 'response' key"])
        ELSE IF ~resp.ok
        THEN Invalid(errs, [src |-> src, type |-> data_type, msg |-> "exception", e |-> resp.exc])
        ELSE IF ~Truthy(resp.v)
        THEN Invalid(errs, [src |-> src, type |-> data_type, msg |-> "Empty response array"])
        ELSE Verdict(TRUE, errs)

\* DataValidator.validate_api_football_response
validate_api_football_response(errs, data, data_type) ==
    LET src == "API-Football"
    IN  IF ~Truthy(data)
        THEN Invalid(errs, [src |-> src, type |-> data_type, msg |-> "Empty response"])
        ELSE IF ~IsList(data)
        THEN Invalid(errs, [src |-> src, type |-> data_type, msg |-> "Invalid response type"])
        ELSE Verdict(TRUE, errs)

\* The outcome of the body of a schema check: it passes, it returns False
\* with a message, or an exception reaches the except clauses.
Pass == [r |-> "pass"]
Fail(m) == [r |-> "fail", msg |-> m, detail |-> <<>>]
FailWith(m, d) == [r |-> "fail", msg |-> m, detail |-> d]
Thrown(e) == [r |-> "exc", exc |-> e]

\* except (KeyError, IndexError, TypeError) / except Exception, then the
\* appended message and the returned verdict.
SchemaVerdict(errs, src, body) ==
    CASE body.r = "pass" -> Verdict(TRUE, errs)
      [] body.r = "fail" ->
            Invalid(errs, [src |-> src, msg |-> body.msg, detail |-> body.detail])
      [] body.r = "exc" ->
            IF body.exc \in {"KeyError", "IndexError", "TypeError"}
            THEN Invalid(errs, [src |-> src, msg |-> "Schema changed", e |-> body.exc])
            ELSE Invalid(errs, [src |-> src, msg |-> "Schema validation failed", e |-> body.exc])

\* standings_data["response"][0]["league"]["standings"][0]
SportsStandingsList(s_data) ==
    FirstR(ItemR(ItemR(FirstR(Item(s_data, "response")), "league"), "standings"))

\* validate_api_sports_schema, lines 98-110
SportsTeamsSchema(t_data) ==
    LET teams == Item(t_data, "response")
        sample == First(teams.v)
        inTeam == In("team", sample.v)
        inVenue == In("venue", sample.v)
        team == Item(sample.v, "team")
        inId == In("id", team.v)
    IN  IF ~teams.ok THEN Thrown(teams.exc)
        ELSE IF ~Truthy(teams.v) THEN Pass
        ELSE IF ~sample.ok THEN Thrown(sample.exc)
        ELSE IF ~inTeam.ok THEN Thrown(inTeam.exc)
        ELSE IF ~inTeam.v \/ ~inVenue.v
        THEN Fail("Schema change - missing team or venue structure")
        ELSE IF ~team.ok THEN Thrown(team.exc)
        ELSE IF ~inId.ok THEN Thrown(inId.exc)
        ELSE IF ~inId.v THEN Fail("Schema change - missing team.id")
        ELSE Pass

\* validate_api_sports_schema, lines 112-124
SportsStandingsSchema(s_data) ==
    LET standings == SportsStandingsList(s_data)
        sample == First(standings.v)
        inTeam == In("team", sample.v)
        inAll == In("all", sample.v)
        all == Item(sample.v, "all")
        inGoals == In("goals", all.v)
    IN  IF ~standings.ok THEN Thrown(standings.exc)
        ELSE IF ~Truthy(standings.v) THEN Pass
        ELSE IF ~sample.ok THEN Thrown(sample.exc)
        ELSE IF ~inTeam.ok THEN Thrown(inTeam.exc)
        ELSE IF ~inTeam.v \/ ~inAll.v
        THEN Fail("Schema change - missing team or all structure")
        ELSE IF ~all.ok THEN Thrown(all.exc)
        ELSE IF ~inGoals.ok THEN Thrown(inGoals.exc)
        ELSE IF ~inGoals.v THEN Fail("Schema change - missing goals structure")
        ELSE Pass

\* DataValidator.validate_api_sports_schema
validate_api_sports_schema(errs, t_data, s_data) ==
    LET teamsPart == SportsTeamsSchema(t_data)
    IN  SchemaVerdict(errs, "API-Sports",
            IF teamsPart.r = "pass" THEN SportsStandingsSchema(s_data) ELSE teamsPart)

\* validate_api_football_schema, lines 151-162
FootballTeamsSchema(t_data) ==
    LET sample == First(t_data)
        inKey == In("team_key", sample.v)
        inVenue == In("venue", sample.v)
        venue == Item(sample.v, "venue")
    IN  IF ~Truthy(t_data) THEN Pass
        ELSE IF ~sample.ok THEN Thrown(sample.exc)
        ELSE IF ~inKey.ok THEN Thrown(inKey.exc)
        ELSE IF ~inKey.v THEN Fail("Schema change - missing team_key")
        ELSE IF ~inVenue.v THEN Fail("Schema change - venue structure changed")
        ELSE IF ~venue.ok THEN Thrown(venue.exc)
        ELSE IF ~IsDict(venue.v) THEN Fail("Schema change - venue structure changed")
        ELSE Pass

\* critical_fields and the list of those missing from the sample
critical_fields == <<"overall_league_position", "overall_league_PTS">>

\* validate_api_football_schema, lines 164-178
FootballStandingsSchema(s_data) ==
    LET sample == First(s_data)
        inId == In("team_id", sample.v)
        missing == SelectSeq(critical_fields, LAMBDA f : ~In(f, sample.v).v)
    IN  IF ~Truthy(s_data) THEN Pass
        ELSE IF ~sample.ok THEN Thrown(sample.exc)
        ELSE IF ~inId.ok THEN Thrown(inId.exc)
        ELSE IF ~inId.v THEN Fail("Schema change - missing team_id")
        ELSE IF missing # <<>> THEN FailWith("Schema change - missing", missing)
        ELSE Pass

\* DataValidator.validate_api_football_schema
validate_api_football_schema(errs, t_data, s_data) ==
    LET teamsPart == FootballTeamsSchema(t_data)
    IN  SchemaVerdict(errs, "API-Football",
            IF teamsPart.r = "pass" THEN FootballStandingsSchema(s_data) ELSE teamsPart)

\* required_fields of validate_team_record
required_fields == <<"team_id", "name", "rank", "points">>

\* Faulty variant of IsMissing: a falsy value (0, "") counts as missing.
IsMissingOrFalsy(team_data, field) ==
    field \notin DOMAIN team_data \/ ~Truthy(team_data[field])

\* field not in team_data or team_data[field] is None
IsMissing(team_data, field) ==
    field \notin DOMAIN team_data \/ team_data[field] = JNull

\* the list comprehension of line 204
MissingFields(team_data) ==
    SelectSeq(required_fields, LAMBDA f : IsMissing(team_data, f))

\* DataValidator.validate_team_record: (is_valid, missing) and the accumulator
validate_team_record(errs, team_data, src) ==
    LET missing == MissingFields(team_data)
    IN  IF missing # <<>>
        THEN [valid |-> FALSE, missing |-> missing,
              errors |-> AppendError(errs, "validation",
                            [src |-> src, msg |-> "Missing fields", missing |-> missing])]
        ELSE [valid |-> TRUE, missing |-> <<>>, errors |-> errs]

(***************************************************************************)
(* Transformers (transform.py).                                            *)
(***************************************************************************)
\* The outcome of the loop body for one team entry: the record is appended,
\* or the entry is skipped; either way with the accumulator it leaves.
Emit(errs, rec) == [kind |-> "emit", rec |-> rec, errors |-> errs]
Skip(errs) == [kind |-> "skip", errors |-> errs]

\* Faulty variant of SkipWith: the entry is skipped without a message.
SkipWithSilent(errs, message) == Skip(errs)

\* self.errors["transformation"].append(...) followed by skip
SkipWith(errs, message) == Skip(AppendError(errs, "transformation", message))

\* except Exception as e: ... append(f"{source}: {str(e)}"), skip
Caught(errs, src, e) == SkipWith(errs, [src |-> src, msg |-> "exception", e |-> e])

\* is_valid, missing = validate_team_record(...); skip when invalid, append
\* the record otherwise
ValidateAndEmit(errs, rec, src) ==
    LET v == validate_team_record(errs, rec, src)
    IN  IF ~v.valid THEN Skip(v.errors) ELSE Emit(v.errors, rec)

\* for x in c: the elements of a list, the keys of a dict (only the empty
\* dict is modelled), TypeError for what cannot be iterated.
Elements(c) ==
    CASE c.t = "list" -> Val(c.l)
      [] c.t = "dict" /\ DOMAIN c.d = {} -> Val(<<>>)
      [] c.t \in {"null", "int"} -> Exc("TypeError")

Last(S) == CHOOSE i \in S : \A j \in S : j <= i
Least(S) == CHOOSE i \in S : \A j \in S : i <= j

\* team["team"]["id"] as a dict key
SportsKey(entry) ==
    LET id == ItemR(Item(entry, "team"), "id")
    IN  IF ~id.ok THEN id
        ELSE IF ~Hashable(id.v) THEN Exc("TypeError")
        ELSE id

\* standings_lookup = {team["team"]["id"]: team for team in standings}
\* A later entry with the same key replaces an earlier one; the first
\* exception leaves the comprehension (and transform).
SportsLookup(standings) ==
    LET elems == Elements(standings)
        n == Len(elems.v)
        bad == {i \in 1..n : ~SportsKey(elems.v[i]).ok}
        keys == {SportsKey(elems.v[i]).v : i \in 1..n}
    IN  IF ~elems.ok THEN elems
        ELSE IF bad # {} THEN SportsKey(elems.v[Least(bad)])
        ELSE Val([k \in keys |->
                    elems.v[Last({i \in 1..n : SportsKey(elems.v[i]).v = k})]])

\* APISportsTransformer.transform, the body of the for loop (lines 259-310)
SportsEntry(errs, team_entry, lookup) ==
    LET src == "API-Sports"
        team == GetOr(team_entry, "team", EmptyDict)
        venue == GetOr(team_entry, "venue", EmptyDict)
        team_id == Get(team.v, "id")
        standing == lookup[team_id.v]
        all_stats == GetOr(standing, "all", EmptyDict)
        goals == GetOr(all_stats.v, "goals", EmptyDict)
        team_record ==
            [team_id |-> team_id.v,
             name |-> Get(team.v, "name").v,
             country |-> Get(team.v, "country").v,
             founded |-> Get(team.v, "founded").v,
             stadium |-> Get(venue.v, "name").v,
             city |-> Get(venue.v, "city").v,
             capacity |-> Get(venue.v, "capacity").v,
             rank |-> Get(standing, "rank").v,
             points |-> Get(standing, "points").v,
             goal_diff |-> Get(standing, "goalsDiff").v,
             goals_for |-> Get(goals.v, "for").v,
             goals_against |-> Get(goals.v, "against").v,
             win |-> Get(all_stats.v, "win").v,
             draw |-> Get(all_stats.v, "draw").v,
             lose |-> Get(all_stats.v, "lose").v]
    IN  IF ~team.ok THEN Caught(errs, src, team.exc)
        ELSE IF ~team_id.ok THEN Caught(errs, src, team_id.exc)
        ELSE IF ~Truthy(team_id.v)
        THEN SkipWith(errs, [src |-> src, msg |-> "Team missing ID"])
        ELSE IF ~Hashable(team_id.v) THEN Caught(errs, src, "TypeError")
        ELSE IF team_id.v \notin DOMAIN lookup
        THEN SkipWith(errs, [src |-> src, msg |-> "No standings for team",
                             team_id |-> team_id.v])
        ELSE IF ~all_stats.ok THEN Caught(errs, src, all_stats.exc)
        ELSE IF ~goals.ok THEN Caught(errs, src, goals.exc)
        ELSE IF ~IsDict(venue.v) \/ ~IsDict(goals.v)
        THEN Caught(errs, src, "AttributeError")
        ELSE ValidateAndEmit(errs, team_record, src)

\* int(team.get("team_id", 0)) of the lookup loop
FootballKey(entry) ==
    LET raw == GetOr(entry, "team_id", JInt(0))
    IN  IF ~raw.ok THEN raw ELSE ToInt(raw.v)

\* The loop of lines 358-365: ValueError and TypeError skip the entry, any
\* other exception (an entry without get) leaves transform.
FootballLookup(standings) ==
    LET elems == standings.l
        n == Len(elems)
        fatal == {i \in 1..n : ~IsDict(elems[i])}
        good == {i \in 1..n : FootballKey(elems[i]).ok}
        keys == {JInt(FootballKey(elems[i]).v) : i \in good}
    IN  IF fatal # {} THEN Exc("AttributeError")
        ELSE Val([k \in keys |->
                    elems[Last({i \in good : JInt(FootballKey(elems[i]).v) = k})]])

\* Faulty variant of GoalDiff: the operands are swapped.
GoalDiffSwapped(gf, ga) == ga - gf

\* goal_diff = goals_for - goals_against
GoalDiff(gf, ga) == gf - ga

\* int(standing.get(field, 0))
IntField(standing, field) == ToInt(GetOr(standing, field, JInt(0)).v)

\* venue.get(field) if venue else None
VenueField(venue, field) == IF Truthy(venue) THEN Get(venue, field) ELSE Val(JNull)

\* The first exception, if any, among the outcomes rs evaluated in order.
FirstExc(rs) ==
    LET bad == {i \in 1..Len(rs) : ~rs[i].ok}
    IN  IF bad = {} THEN Val(JNull) ELSE rs[Least(bad)]

\* APIFootballTransformer.transform, the body of the for loop (lines 371-428)
FootballEntry(errs, team_entry, lookup) ==
    LET src == "API-Football"
        team_key == Get(team_entry, "team_key")
        team_id == ToInt(team_key.v)
        standing == lookup[JInt(team_id.v)]
        gf == IntField(standing, "overall_league_GF")
        ga == IntField(standing, "overall_league_GA")
        coerced == gf.ok /\ ga.ok
        goals_for == IF coerced THEN gf.v ELSE 0
        goals_against == IF coerced THEN ga.v ELSE 0
        goal_diff == IF coerced THEN GoalDiff(gf.v, ga.v) ELSE 0
        venue == GetOr(team_entry, "venue", EmptyDict).v
        stadium == VenueField(venue, "venue_name")
        city == VenueField(venue, "venue_city")
        capacity == VenueField(venue, "venue_capacity")
        rank == IntField(standing, "overall_league_position")
        points == IntField(standing, "overall_league_PTS")
        win == IntField(standing, "overall_league_W")
        draw == IntField(standing, "overall_league_D")
        lose == IntField(standing, "overall_league_L")
        thrown == FirstExc(<<stadium, city, capacity, rank, points, win, draw, lose>>)
        team_record ==
            [team_id |-> JInt(team_id.v),
             name |-> Get(team_entry, "team_name").v,
             country |-> Get(team_entry, "team_country").v,
             founded |-> Get(team_entry, "team_founded").v,
             stadium |-> stadium.v,
             city |-> city.v,
             capacity |-> capacity.v,
             rank |-> JInt(rank.v),
             points |-> JInt(points.v),
             goal_diff |-> JInt(goal_diff),
             goals_for |-> JInt(goals_for),
             goals_against |-> JInt(goals_against),
             win |-> JInt(win.v),
             draw |-> JInt(draw.v),
             lose |-> JInt(lose.v)]
    IN  IF ~team_key.ok THEN Caught(errs, src, team_key.exc)
        ELSE IF ~Truthy(team_key.v)
        THEN SkipWith(errs, [src |-> src, msg |-> "Team missing team_key"])
        ELSE IF ~team_id.ok THEN Caught(errs, src, team_id.exc)
        ELSE IF JInt(team_id.v) \notin DOMAIN lookup
        THEN SkipWith(errs, [src |-> src, msg |-> "No standings for team",
                             team_id |-> JInt(team_id.v)])
        ELSE IF ~thrown.ok THEN Caught(errs, src, thrown.exc)
        ELSE ValidateAndEmit(errs, team_record, src)

\* Faulty variant of SportsValidate: the schema check is left out.
SportsValidateNoSchema(errs, t_data, s_data) ==
    LET v1 == validate_api_sports_response(errs, t_data, "teams")
        v2 == validate_api_sports_response(v1.errors, s_data, "standings")
    IN  IF ~v1.valid THEN v1 ELSE v2

\* The three checks at the head of transform, in order; the first that
\* fails ends them (transform raises ValueError).
SportsValidate(errs, t_data, s_data) ==
    LET v1 == validate_api_sports_response(errs, t_data, "teams")
        v2 == validate_api_sports_response(v1.errors, s_data, "standings")
        v3 == validate_api_sports_schema(v2.errors, t_data, s_data)
    IN  IF ~v1.valid THEN v1 ELSE IF ~v2.valid THEN v2 ELSE v3

FootballValidate(errs, t_data, s_data) ==
    LET v1 == validate_api_football_response(errs, t_data, "teams")
        v2 == validate_api_football_response(v1.errors, s_data, "standings")
        v3 == validate_api_football_schema(v2.errors, t_data, s_data)
    IN  IF ~v1.valid THEN v1 ELSE IF ~v2.valid THEN v2 ELSE v3

Validate(src, errs, t_data, s_data) ==
    IF src = "API-Sports" THEN SportsValidate(errs, t_data, s_data)
    ELSE FootballValidate(errs, t_data, s_data)

\* The list the for loop runs over: teams_data["response"] or teams_data.
TeamsList(src, t_data) ==
    IF src = "API-Sports" THEN Item(t_data, "response").v.l ELSE t_data.l

\* The lookup each transformer builds from its standings payload.
Lookup(src, s_data) ==
    IF src = "API-Sports" THEN SportsLookup(SportsStandingsList(s_data).v)
    ELSE FootballLookup(s_data)

\* Faulty variant of Entry: an entry is skipped when the accumulator already
\* holds a transformation message.
EntryUnlessErrors(src, errs, team_entry, lookup) ==
    IF errs["transformation"] # <<>>
    THEN SkipWith(errs, [src |-> src, msg |-> "exception", e |-> "RuntimeError"])
    ELSE IF src = "API-Sports" THEN SportsEntry(errs, team_entry, lookup)
    ELSE FootballEntry(errs, team_entry, lookup)

Entry(src, errs, team_entry, lookup) ==
    IF src = "API-Sports" THEN SportsEntry(errs, team_entry, lookup)
    ELSE FootballEntry(errs, team_entry, lookup)

\* Faulty variant of CountSkip: a skipped entry is not counted.
CountSkipNever(kind, n) == n

\* Faulty variant of CountSkip: an emitted entry is counted as skipped too.
CountSkipAll(kind, n) == n + 1

\* Faulty variant of CountSkip: a skipped entry is counted twice.
CountSkipTwice(kind, n) == IF kind = "emit" THEN n ELSE n + 2

\* skipped_count += 1 on every path that skips the entry
CountSkip(kind, n) == IF kind = "emit" THEN n ELSE n + 1

NotWritten == [written |-> FALSE]
Written(content) == [written |-> TRUE, content |-> content]

\* transform up to the for loop: validation, then the standings lookup.
TransformStart ==
    /\ tpc = "start"
    /\ LET v == Validate(source, errors, teams_data, standings_data)
           lk == Lookup(source, standings_data)
       IN  /\ errors' = v.errors
           /\ IF ~v.valid
              THEN /\ tpc' = "raised"
                   /\ transform_result' = Raise("ValueError")
                   /\ UNCHANGED <<idx, standings_lookup, transformed, skipped_count>>
              ELSE IF ~lk.ok
              THEN /\ tpc' = "raised"
                   /\ transform_result' = Raise(lk.exc)
                   /\ UNCHANGED <<idx, standings_lookup, transformed, skipped_count>>
              ELSE /\ tpc' = "loop"
                   /\ standings_lookup' = lk.v
                   /\ transformed' = <<>>
                   /\ skipped_count' = 0
                   /\ idx' = 1
                   /\ UNCHANGED transform_result
    /\ UNCHANGED <<source, teams_data, standings_data, output_file, first_call, fetchVars,
                   valVars, chkVars, mainVars>>

\* One iteration of the for loop over the team entries.
TransformEntry ==
    /\ tpc = "loop"
    /\ idx <= Len(TeamsList(source, teams_data))
    /\ LET r == Entry(source, errors, TeamsList(source, teams_data)[idx], standings_lookup)
       IN  /\ errors' = r.errors
           /\ transformed' = IF r.kind = "emit" THEN Append(transformed, r.rec)
                              ELSE transformed
           /\ skipped_count' = CountSkip(r.kind, skipped_count)
    /\ idx' = idx + 1
    /\ UNCHANGED <<source, teams_data, standings_data, tpc, standings_lookup,
                   output_file, transform_result, first_call, fetchVars, valVars, chkVars,
                   mainVars>>

\* After the loop: json.dump(transformed) to output_file, return the table.
TransformFinish ==
    /\ tpc = "loop"
    /\ idx > Len(TeamsList(source, teams_data))
    /\ output_file' = Written(transformed)
    /\ transform_result' = Return(transformed)
    /\ tpc' = "returned"
    /\ UNCHANGED <<errors, source, teams_data, standings_data, idx, standings_lookup,
                   transformed, skipped_count, first_call, fetchVars, valVars, chkVars,
                   mainVars>>

(***************************************************************************)
(* Inputs of the transformers: payloads built from a few team entries and  *)
(* standings entries, well-formed and not.                                 *)
(***************************************************************************)
SportsTeamEntries ==
    { JDict([team |-> JDict([id |-> JInt(1), name |-> JStr("A"),
                             country |-> JStr("England"), founded |-> JInt(1886)]),
             venue |-> JDict([name |-> JStr("S1"), city |-> JStr("London"),
                              capacity |-> JInt(60000)])]),
      JDict([team |-> JDict([id |-> JInt(2), name |-> JStr("B")]), venue |-> EmptyDict]),
      JDict([team |-> JDict([name |-> JStr("C")]), venue |-> EmptyDict]),
      JDict([team |-> JDict([id |-> JInt(0), name |-> JStr("Z")]), venue |-> EmptyDict]),
      JDict([team |-> JDict([id |-> JInt(1)]), venue |-> EmptyDict]) }

SportsStandingEntries ==
    { JDict([rank |-> JInt(1), team |-> JDict([id |-> JInt(1)]), points |-> JInt(3),
             goalsDiff |-> JInt(1),
             all |-> JDict([win |-> JInt(1), draw |-> JInt(0), lose |-> JInt(0),
                            goals |-> JDict([for |-> JInt(2), against |-> JInt(1)])])]),
      JDict([rank |-> JInt(2), team |-> JDict([id |-> JInt(2)]), points |-> JInt(0),
             all |-> JDict([win |-> JInt(0), draw |-> JInt(0), lose |-> JInt(1),
                            goals |-> JDict([for |-> JInt(1), against |-> JInt(2)])])]),
      JDict([team |-> JDict([id |-> JInt(1)]), points |-> JInt(3), goalsDiff |-> JInt(0),
             all |-> JDict([goals |-> EmptyDict])]),
      JDict([rank |-> JInt(3), team |-> JDict([id |-> JInt(2)]), points |-> JNull,
             goalsDiff |-> JInt(0 - 1),
             all |-> JDict([goals |-> JDict([for |-> JInt(0), against |-> JInt(1)])])]),
      JDict([rank |-> JInt(1), team |-> EmptyDict, points |-> JInt(1),
             all |-> JDict([goals |-> EmptyDict])]),
      JDict([rank |-> JInt(4), team |-> JDict([id |-> JInt(2)]), points |-> JInt(1)]) }

FootballTeamEntries ==
    { JDict([team_key |-> JStr("1"), team_name |-> JStr("A"),
             team_country |-> JStr("England"), team_founded |-> JStr("1886"),
             venue |-> JDict([venue_name |-> JStr("S1"), venue_city |-> JStr("London"),
                              venue_capacity |-> JStr("60000")])]),
      JDict([team_key |-> JStr("2"), team_name |-> JStr("B"), venue |-> EmptyDict]),
      JDict([team_name |-> JStr("C"), venue |-> EmptyDict]),
      JDict([team_key |-> JStr("abc"), team_name |-> JStr("X"), venue |-> EmptyDict]),
      JDict([team_key |-> JStr("1"), venue |-> EmptyDict]),
      JDict([team_key |-> JStr("0"), team_name |-> JStr("Z"), venue |-> EmptyDict]) }

FootballStandingEntries ==
    { JDict([team_id |-> JStr("1"), overall_league_position |-> JStr("1"),
             overall_league_PTS |-> JStr("3"), overall_league_GF |-> JStr("2"),
             overall_league_GA |-> JStr("1"), overall_league_W |-> JStr("1"),
             overall_league_D |-> JStr("0"), overall_league_L |-> JStr("0")]),
      JDict([team_id |-> JStr("2"), overall_league_position |-> JStr("2"),
             overall_league_PTS |-> JStr("0"), overall_league_GA |-> JStr("2")]),
      JDict([team_id |-> JStr("1"), overall_league_PTS |-> JStr("3")]),
      JDict([team_id |-> JStr("2"), overall_league_position |-> JStr("3"),
             overall_league_PTS |-> JStr("x")]),
      JDict([team_id |-> JStr("2"), overall_league_position |-> JStr("2"),
             overall_league_PTS |-> JStr("1"), overall_league_GF |-> JStr("x"),
             overall_league_GA |-> JStr("1")]),
      JDict([team_id |-> JStr("1"), overall_league_position |-> JStr("1"),
             overall_league_PTS |-> JNull]),
      JDict([overall_league_position |-> JStr("3"), overall_league_PTS |-> JStr("1")]),
      JDict([team_id |-> JStr("abc"), overall_league_position |-> JStr("2"),
             overall_league_PTS |-> JStr("2")]),
      JNull }

\* The sequences over S of length at most n.
SeqsUpTo(S, n) == UNION {[1..k -> S] : k \in 0..n}

\* API-Sports wraps its records in a response envelope.
SportsTeamsPayload(entries) == JDict([response |-> JList(entries)])
SportsStandingsPayload(entries) ==
    JDict([response |-> JList(<<
        JDict([league |-> JDict([standings |-> JList(<<JList(entries)>>)])]) >>)])

\* Payloads that are no envelope or no list at all.
MalformedPayloads == {JNull, JDict([errors |-> JList(<<>>)])}

TeamsPayloads(src) ==
    MalformedPayloads \cup
    IF src = "API-Sports"
    THEN {SportsTeamsPayload(e) : e \in SeqsUpTo(SportsTeamEntries, MaxTeams)}
    ELSE {JList(e) : e \in SeqsUpTo(FootballTeamEntries, MaxTeams)}

StandingsPayloads(src) ==
    MalformedPayloads \cup
    IF src = "API-Sports"
    THEN {SportsStandingsPayload(e) : e \in SeqsUpTo(SportsStandingEntries, MaxStandings)}
    ELSE {JList(e) : e \in SeqsUpTo(FootballStandingEntries, MaxStandings)}

\* Records handed to validate_team_record: each mandatory field absent,
\* null, falsy (0, "") or an ordinary value.
FieldValues == {JNull, JInt(0), JStr(""), JInt(7), JStr("A")}
TeamRecords == UNION {[D -> FieldValues] : D \in SUBSET {"team_id", "name", "rank", "points"}}

NoVerdict == [valid |-> FALSE, missing |-> <<>>, applied |-> FALSE]

\* A call of validate_team_record(v_record, source).
ValidateRecord ==
    /\ ~v_verdict.applied
    /\ LET v == validate_team_record(errors, v_record, source)
       IN  /\ v_verdict' = [valid |-> v.valid, missing |-> v.missing, applied |-> TRUE]
           /\ errors' = v.errors
    /\ UNCHANGED <<v_record, fetchVars, transVars, chkVars, mainVars>>

(***************************************************************************)
(* Initial states and specifications.                                      *)
(***************************************************************************)
ValidateIdle ==
    /\ v_record = <<>>
    /\ v_verdict = [NoVerdict EXCEPT !.applied = TRUE]

FetchIdle ==
    /\ metrics = InitMetrics
    /\ calls = 0
    /\ api_name = "API-Sports"
    /\ fpc = "idle"
    /\ attempt = 0
    /\ trace = <<>>
    /\ errors_at_call = NoErrors
    /\ mr_result = NoResult
    /\ fetch_result = NoResult

TransformIdle ==
    /\ source = "API-Sports"
    /\ teams_data = JNull
    /\ standings_data = JNull
    /\ tpc = "idle"
    /\ idx = 0
    /\ standings_lookup = <<>>
    /\ transformed = <<>>
    /\ skipped_count = 0
    /\ output_file = NotWritten
    /\ transform_result = NoResult
    /\ first_call = NoResult

\* No DataValidator check is being called on its own.
ChecksIdle ==
    /\ chk = "none"
    /\ chk_args = <<>>
    /\ chk_outcome = NoResult

\* main is not running.
MainIdle ==
    /\ mpc = "idle"
    /\ m_source = "API-Sports"
    /\ api_sports_success = FALSE
    /\ api_football_success = FALSE
    /\ m_teams_data = JNull
    /\ m_standings_data = JNull
    /\ m_df = <<>>
    /\ csv_files = [s \in ApiNames |-> NotWritten]
    /\ tables = [s \in ApiNames |-> NotWritten]
    /\ notifications = <<>>
    /\ metrics_rows = <<>>
    /\ m_log = <<>>
    /\ main_result = NoResult

vars == <<errors, fetchVars, transVars, valVars, chkVars, mainVars>>

\* The extractors: fetches of either source against a fresh accumulator.
InitFetch ==
    /\ errors = NoErrors
    /\ FetchIdle
    /\ metrics_tracker \in BOOLEAN
    /\ resource \in Resources
    /\ TransformIdle
    /\ ValidateIdle
    /\ ChecksIdle
    /\ MainIdle

NextFetch ==
    \/ \E api \in ApiNames : Call(api)
    \/ \E o \in Outcomes : Request(o)
    \/ Sleep

SpecFetch == InitFetch /\ [][NextFetch]_vars

\* The transformers: one transform call of either source on a payload pair.
InitTransform ==
    /\ errors = NoErrors
    /\ FetchIdle
    /\ metrics_tracker = FALSE
    /\ resource = "teams"
    /\ source \in ApiNames
    /\ teams_data \in TeamsPayloads(source)
    /\ standings_data \in StandingsPayloads(source)
    /\ tpc = "start"
    /\ idx = 0
    /\ standings_lookup = <<>>
    /\ transformed = <<>>
    /\ skipped_count = 0
    /\ output_file = NotWritten
    /\ transform_result = NoResult
    /\ first_call = NoResult
    /\ ValidateIdle
    /\ ChecksIdle
    /\ MainIdle

NextTransform ==
    \/ TransformStart
    \/ TransformEntry
    \/ TransformFinish

SpecTransform == InitTransform /\ [][NextTransform]_vars

\* The caller calls transform once more on the same transformer, with the
\* same arguments and the same output_file: the locals start afresh, the
\* error accumulator and the file are those the first call left.
TransformAgain ==
    /\ tpc \in {"returned", "raised"}
    /\ first_call = NoResult
    /\ first_call' = transform_result
    /\ tpc' = "start"
    /\ idx' = 0
    /\ standings_lookup' = <<>>
    /\ transformed' = <<>>
    /\ skipped_count' = 0
    /\ transform_result' = NoResult
    /\ UNCHANGED <<errors, source, teams_data, standings_data, output_file, fetchVars,
                   valVars, chkVars, mainVars>>

NextTransformTwice ==
    \/ TransformStart
    \/ TransformEntry
    \/ TransformFinish
    \/ TransformAgain

\* Two consecutive transform calls on equal arguments.
SpecTransformTwice == InitTransform /\ [][NextTransformTwice]_vars

\* The record-level check: validate_team_record applied to one record.
InitValidate ==
    /\ errors = NoErrors
    /\ FetchIdle
    /\ metrics_tracker = FALSE
    /\ resource = "teams"
    /\ source \in ApiNames
    /\ teams_data = JNull
    /\ standings_data = JNull
    /\ tpc = "idle"
    /\ idx = 0
    /\ standings_lookup = <<>>
    /\ transformed = <<>>
    /\ skipped_count = 0
    /\ output_file = NotWritten
    /\ transform_result = NoResult
    /\ first_call = NoResult
    /\ v_record \in TeamRecords
    /\ v_verdict = NoVerdict
    /\ ChecksIdle
    /\ MainIdle

NextValidate == ValidateRecord

SpecValidate == InitValidate /\ [][NextValidate]_vars

(***************************************************************************)
(* The orchestration (main.py).  main runs on one thread; its steps are    *)
(* the requests and the backoff waits of its fetches and the calls of      *)
(* transform, to_csv and load.                                             *)
(***************************************************************************)
\* One pass of the while loop of _make_request inside fetch, the request of
\* attempt att ending as o: what _make_request and fetch return or raise
\* (NoResult when the loop goes on to the backoff wait) and the accumulator
\* the pass leaves.
Attempt(api, res, errs, o, att) ==
    LET failed == AppendError(errs, ErrorKey(api), ErrorMessage(o, att, Url(api, res)))
        ended(x) == [made |-> x, result |-> x, errors |-> failed]
    IN  IF o.kind = "ok"
        THEN [made |-> Return(o.data), result |-> StripPlayers(api, res, o.data),
              errors |-> errs]
        ELSE IF ~IsTransient(o.kind) THEN ended(Raise(ExcOf(o)))
        ELSE IF RetryAllowed(att) THEN ended(NoResult)
        ELSE ended(Raise(ExhaustedExc))

\* The for loop of transform from entry i on.
RECURSIVE TransformLoop(_, _, _, _, _)
TransformLoop(src, entries, lookup, i, acc) ==
    IF i > Len(entries) THEN acc
    ELSE LET r == Entry(src, acc.errors, entries[i], lookup)
         IN  TransformLoop(src, entries, lookup, i + 1,
                 [errors |-> r.errors,
                  transformed |-> IF r.kind = "emit" THEN Append(acc.transformed, r.rec)
                                  ELSE acc.transformed,
                  skipped_count |-> CountSkip(r.kind, acc.skipped_count)])

\* APISportsTransformer.transform / APIFootballTransformer.transform as one
\* call: the result, the accumulator it leaves and the audit file.
transform(src, errs, t_data, s_data) ==
    LET v == Validate(src, errs, t_data, s_data)
        lk == Lookup(src, s_data)
        done == TransformLoop(src, TeamsList(src, t_data), lk.v, 1,
                    [errors |-> v.errors, transformed |-> <<>>, skipped_count |-> 0])
    IN  IF ~v.valid
        THEN [result |-> Raise("ValueError"), errors |-> v.errors, output_file |-> NotWritten]
        ELSE IF ~lk.ok
        THEN [result |-> Raise(lk.exc), errors |-> v.errors, output_file |-> NotWritten]
        ELSE [result |-> Return(done.transformed), errors |-> done.errors,
              output_file |-> Written(done.transformed)]

\* BigQueryLoader.load: on failure the message goes to the load category and
\* the exception is raised again.
load(errs, ok) ==
    IF ok THEN [result |-> Return(JNull), errors |-> errs]
    ELSE [result |-> Raise("Exception"),
          errors |-> AppendError(errs, "load", [msg |-> "Failed to load data to BigQuery"])]

\* What the two APIs answer in a run of main: a payload the transformer
\* accepts, or an empty one.
MainPayloads(src, res) ==
    IF src = "API-Sports"
    THEN { JDict([response |-> JList(<<>>)]),
           IF res = "teams"
           THEN SportsTeamsPayload(<<
                    JDict([team |-> JDict([id |-> JInt(1), name |-> JStr("A")]),
                           venue |-> EmptyDict]) >>)
           ELSE SportsStandingsPayload(<<
                    JDict([rank |-> JInt(1), team |-> JDict([id |-> JInt(1)]),
                           points |-> JInt(3), goalsDiff |-> JInt(1),
                           all |-> JDict([goals |-> JDict([for |-> JInt(2),
                                                           against |-> JInt(1)])])]) >>) }
    ELSE { JList(<<>>),
           IF res = "teams"
           THEN JList(<< JDict([team_key |-> JStr("1"), team_name |-> JStr("A"),
                                venue |-> EmptyDict,
                                players |-> JList(<<JStr("p")>>)]) >>)
           ELSE JList(<< JDict([team_id |-> JStr("1"),
                                overall_league_position |-> JStr("1"),
                                overall_league_PTS |-> JStr("3")]) >>) }

\* How a request of a fetch of main can end.
MainOutcomes(src, res) ==
    [kind : {"ok"}, data : MainPayloads(src, res)]
    \cup {[kind |-> "timeout"], [kind |-> "http", status |-> 500]}

\* The success flag of a source.
Success(src) == IF src = "API-Sports" THEN api_sports_success ELSE api_football_success

\* Where main goes when the try block of a source has completed: the next
\* source's block, or the end of the run.
AfterTry(src) ==
    IF src = "API-Sports" THEN [mpc |-> "fetch_teams", source |-> "API-Football"]
    ELSE [mpc |-> "alert", source |-> src]

\* Faulty variant of AfterExcept: a failed source ends the processing.
AfterExceptAbort(src) == [mpc |-> "alert", source |-> src]

\* Where main goes when the except clause of a source has run: the handler
\* only reports, and main goes on as after the try block.
AfterExcept(src) == AfterTry(src)

\* A step of the running try block raised: the except clause reports the
\* failure and leaves the flag FALSE.
StepRaised(step) ==
    /\ m_log' = Append(m_log, [source |-> m_source, step |-> step, ok |-> FALSE])
    /\ mpc' = AfterExcept(m_source).mpc
    /\ m_source' = AfterExcept(m_source).source

\* Faulty variant of StepDone: the standings fetch is passed over.
StepDoneSkipStandings(step, next) ==
    /\ m_log' = Append(m_log, [source |-> m_source, step |-> step, ok |-> TRUE])
    /\ mpc' = IF next = "fetch_standings" THEN "transform" ELSE next
    /\ m_source' = m_source

\* A step of the running try block completed; next is the step named.
StepDone(step, next) ==
    /\ m_log' = Append(m_log, [source |-> m_source, step |-> step, ok |-> TRUE])
    /\ mpc' = next
    /\ m_source' = m_source

\* The loop variable of the fetch main is in: 0 when the step begins the
\* call, and the requests and waits made by the call so far.
MainAttempt == IF fpc = "request" THEN attempt ELSE 0
MainTrace == IF fpc = "request" THEN trace ELSE <<>>

\* The extractor's side of a request of main's fetch of res that ended as o
\* with r: the call is begun if the step is its first, and it is left
\* waiting before the next request, returned or raised.
FetchStep(res, o, r) ==
    /\ calls' = IF fpc = "request" THEN calls ELSE calls + 1
    /\ errors_at_call' = IF fpc = "request" THEN errors_at_call ELSE errors
    /\ api_name' = m_source
    /\ resource' = res
    /\ attempt' = MainAttempt
    /\ trace' = Append(MainTrace, [ev |-> "request", attempt |-> MainAttempt + 1,
                                   outcome |-> o])
    /\ fpc' = CASE r.result.kind = "return" -> "returned"
                [] r.result.kind = "raise" -> "raised"
                [] OTHER -> "sleep"
    /\ mr_result' = r.made
    /\ fetch_result' = r.result

\* teams_data = extractor.fetch("teams", ...): one request of the fetch.  A
\* transient failure that may be retried leaves main inside the fetch, at
\* the backoff wait; any other outcome ends the fetch and the step.
MainFetchTeams ==
    /\ mpc = "fetch_teams"
    /\ fpc # "sleep"
    /\ \E o \in MainOutcomes(m_source, "teams") :
        LET r == Attempt(m_source, "teams", errors, o, MainAttempt)
        IN  /\ errors' = r.errors
            /\ FetchStep("teams", o, r)
            /\ CASE r.result.kind = "return" ->
                        /\ m_teams_data' = r.result.data
                        /\ StepDone("fetch_teams", "fetch_standings")
                 [] r.result.kind = "raise" ->
                        /\ StepRaised("fetch_teams")
                        /\ UNCHANGED m_teams_data
                 [] OTHER -> UNCHANGED <<mpc, m_source, m_log, m_teams_data>>
    /\ UNCHANGED <<api_sports_success, api_football_success, m_standings_data, m_df,
                   csv_files, tables, notifications, metrics_rows, main_result,
                   metrics, metrics_tracker, transVars, valVars, chkVars>>

\* standings_data = extractor.fetch("standings", ...): one request of the
\* fetch, as for the teams.
MainFetchStandings ==
    /\ mpc = "fetch_standings"
    /\ fpc # "sleep"
    /\ \E o \in MainOutcomes(m_source, "standings") :
        LET r == Attempt(m_source, "standings", errors, o, MainAttempt)
        IN  /\ errors' = r.errors
            /\ FetchStep("standings", o, r)
            /\ CASE r.result.kind = "return" ->
                        /\ m_standings_data' = r.result.data
                        /\ StepDone("fetch_standings", "transform")
                 [] r.result.kind = "raise" ->
                        /\ StepRaised("fetch_standings")
                        /\ UNCHANGED m_standings_data
                 [] OTHER -> UNCHANGED <<mpc, m_source, m_log, m_standings_data>>
    /\ UNCHANGED <<api_sports_success, api_football_success, m_teams_data, m_df,
                   csv_files, tables, notifications, metrics_rows, main_result,
                   metrics, metrics_tracker, transVars, valVars, chkVars>>

\* time.sleep(wait_time) between two requests of a fetch of main.
MainSleep ==
    /\ mpc \in {"fetch_teams", "fetch_standings"}
    /\ Sleep

\* df = transformer.transform(teams_data, standings_data, output_file): a
\* call that returns has written the records to the audit file it was
\* given; a call that raises has written no file.
MainTransform ==
    /\ mpc = "transform"
    /\ \E r \in {transform(m_source, errors, m_teams_data, m_standings_data)} :
           /\ errors' = r.errors
           /\ output_file' = r.output_file
           /\ IF r.result.kind = "return"
              THEN /\ m_df' = r.result.data
                   /\ StepDone("transform", "export")
              ELSE /\ StepRaised("transform")
                   /\ UNCHANGED m_df
    /\ UNCHANGED <<api_sports_success, api_football_success, m_teams_data,
                   m_standings_data, csv_files, tables, notifications, metrics_rows,
                   main_result, fetchVars, valVars, chkVars,
                   source, teams_data, standings_data, tpc, idx, standings_lookup,
                   transformed, skipped_count, transform_result, first_call>>

\* df.to_csv(csv_file, index=False)
MainExport ==
    /\ mpc = "export"
    /\ \E ok \in BOOLEAN :
        IF ok
        THEN /\ csv_files' = [csv_files EXCEPT ![m_source] = Written(m_df)]
             /\ StepDone("export", "load")
        ELSE /\ StepRaised("export")
             /\ UNCHANGED csv_files
    /\ UNCHANGED <<errors, api_sports_success, api_football_success, m_teams_data,
                   m_standings_data, m_df, tables, notifications, metrics_rows,
                   main_result, fetchVars, transVars, valVars, chkVars>>

\* bigquery_loader.load(df, dataset); then the flag of the source is set and
\* the try block ends.
MainLoad ==
    /\ mpc = "load"
    /\ \E ok \in BOOLEAN :
        LET r == load(errors, ok)
        IN  /\ errors' = r.errors
            /\ IF r.result.kind = "return"
               THEN /\ tables' = [tables EXCEPT ![m_source] = Written(m_df)]
                    /\ m_log' = Append(m_log, [source |-> m_source, step |-> "load",
                                               ok |-> TRUE])
                    /\ api_sports_success' = (m_source = "API-Sports" \/ api_sports_success)
                    /\ api_football_success' =
                           (m_source = "API-Football" \/ api_football_success)
                    /\ mpc' = AfterTry(m_source).mpc
                    /\ m_source' = AfterTry(m_source).source
               ELSE /\ StepRaised("load")
                    /\ UNCHANGED <<tables, api_sports_success, api_football_success>>
    /\ UNCHANGED <<m_teams_data, m_standings_data, m_df, csv_files, notifications,
                   metrics_rows, main_result, fetchVars, transVars, valVars, chkVars>>

\* The alert main prepares at the end of the run, from the two flags; no
\* branch covers the run in which both sources succeeded.
AlertSubject(sports_ok, football_ok) ==
    IF ~sports_ok /\ ~football_ok THEN "CRITICAL: ETL Pipeline Complete Failure"
    ELSE IF ~sports_ok \/ ~football_ok THEN "WARNING: ETL Pipeline Partial Failure"
    ELSE "none"

\* The end of main (lines 116-153).  Building the alert body calls
\* error_tracker.get_error_report(), which ErrorTracker does not define:
\* AttributeError leaves main before anything is sent.  No MetricsTracker
\* exists in main, so no metrics row is persisted either.
MainAlert ==
    /\ mpc = "alert"
    /\ mpc' = "done"
    /\ main_result' = IF AlertSubject(api_sports_success, api_football_success) = "none"
                      THEN Return(JNull)
                      ELSE Raise("AttributeError")
    /\ UNCHANGED <<errors, m_source, api_sports_success, api_football_success,
                   m_teams_data, m_standings_data, m_df, csv_files, tables,
                   notifications, metrics_rows, m_log,
                   fetchVars, transVars, valVars, chkVars>>

\* main: a run with a fresh error tracker.
InitMain ==
    /\ errors = NoErrors
    /\ FetchIdle
    /\ metrics_tracker = FALSE
    /\ resource = "teams"
    /\ TransformIdle
    /\ ValidateIdle
    /\ ChecksIdle
    /\ mpc = "fetch_teams"
    /\ m_source = "API-Sports"
    /\ api_sports_success = FALSE
    /\ api_football_success = FALSE
    /\ m_teams_data = JNull
    /\ m_standings_data = JNull
    /\ m_df = <<>>
    /\ csv_files = [s \in ApiNames |-> NotWritten]
    /\ tables = [s \in ApiNames |-> NotWritten]
    /\ notifications = <<>>
    /\ metrics_rows = <<>>
    /\ m_log = <<>>
    /\ main_result = NoResult

NextMain ==
    \/ MainFetchTeams
    \/ MainFetchStandings
    \/ MainSleep
    \/ MainTransform
    \/ MainExport
    \/ MainLoad
    \/ MainAlert

SpecMain == InitMain /\ [][NextMain]_vars

(***************************************************************************)
(* The reporting functions (load.py EmailAlerter, metrics.py               *)
(* MetricsTracker).  main calls none of them; they are modelled as calls   *)
(* made on their own, on any flags, accumulator and counters.              *)
(***************************************************************************)
MaxReports == 2

\* MetricsTracker.record_teams_processed
record_teams_processed(m, api_key, count) ==
    IF api_key = "api_sports" THEN [m EXCEPT !.teams_processed_api_sports = count]
    ELSE IF api_key = "api_football" THEN [m EXCEPT !.teams_processed_api_football = count]
    ELSE m

\* The pipeline_status column of save_to_bigquery (lines 95-97).
pipeline_status(m) ==
    IF m.total_errors = 0 THEN "success"
    ELSE IF m.teams_processed_api_sports > 0 \/ m.teams_processed_api_football > 0
    THEN "partial"
    ELSE "failed"

\* The row save_to_bigquery builds from the counters (the time stamp, the
\* duration and the latencies are not modelled).
MetricsRow(m) ==
    [api_sports_call_count |-> m.api_sports_calls,
     api_football_call_count |-> m.api_football_calls,
     api_sports_error_count |-> m.api_sports_errors,
     api_football_error_count |-> m.api_football_errors,
     total_error_count |-> m.total_errors,
     teams_processed_api_sports |-> m.teams_processed_api_sports,
     teams_processed_api_football |-> m.teams_processed_api_football,
     pipeline_status |-> pipeline_status(m)]

\* The branch send_pipeline_status takes (lines 83-89).
StatusBranch(sports_ok, football_ok) ==
    IF ~sports_ok /\ ~football_ok THEN "critical"
    ELSE IF ~sports_ok \/ ~football_ok THEN "partial"
    ELSE "success"

\* The subject line of each branch.
EmailSubject(branch) ==
    CASE branch = "critical" -> "CRITICAL: ETL Pipeline Complete Failure"
      [] branch = "partial"  -> "WARNING: ETL Pipeline Partial Failure"
      [] branch = "success"  -> "SUCCESS: ETL Pipeline Completed Successfully"

\* The status line of each branch.
EmailStatus(branch) ==
    CASE branch = "critical" -> "CRITICAL FAILURE"
      [] branch = "partial"  -> "PARTIAL FAILURE"
      [] branch = "success"  -> "SUCCESS"

\* The e-mail a branch hands to _send_email: the subject and what
\* _build_email_body puts in the body (the time stamp is not modelled).  The
\* breakdown lists the categories that hold a message.
StatusEmail(sports_ok, football_ok, errs) ==
    LET branch == StatusBranch(sports_ok, football_ok)
    IN  [subject |-> EmailSubject(branch),
         status |-> EmailStatus(branch),
         api_sports_status |-> IF sports_ok THEN "Success" ELSE "Failed",
         api_football_status |-> IF football_ok THEN "Success" ELSE "Failed",
         total_errors |-> get_total_errors(errs),
         breakdown |-> [c \in {k \in Categories : errs[k] # <<>>} |-> Len(errs[c])]]

\* EmailAlerter.send_pipeline_status(api_sports_success, api_football_success,
\* error_tracker): nothing is sent when the credentials are not configured;
\* _send_email logs a failure of the SMTP exchange and returns.
SendPipelineStatus ==
    /\ Len(notifications) < MaxReports
    /\ \E configured \in BOOLEAN, delivered \in BOOLEAN :
        notifications' =
            IF configured /\ delivered
            THEN Append(notifications,
                        StatusEmail(api_sports_success, api_football_success, errors))
            ELSE notifications
    /\ UNCHANGED <<errors, fetchVars, transVars, valVars, chkVars, mpc, m_source,
                   api_sports_success, api_football_success, m_teams_data,
                   m_standings_data, m_df, csv_files, tables, metrics_rows, m_log,
                   main_result>>

\* MetricsTracker.save_to_bigquery: one row is appended to the metrics
\* table; a failure of the load job is logged and swallowed.
SaveToBigquery ==
    /\ Len(metrics_rows) < MaxReports
    /\ \E ok \in BOOLEAN :
        metrics_rows' = IF ok THEN Append(metrics_rows, MetricsRow(metrics))
                        ELSE metrics_rows
    /\ UNCHANGED <<errors, fetchVars, transVars, valVars, chkVars, mpc, m_source,
                   api_sports_success, api_football_success, m_teams_data,
                   m_standings_data, m_df, csv_files, tables, notifications, m_log,
                   main_result>>

\* MetricsTracker.record_teams_processed(api_name, count)
RecordTeamsProcessed ==
    /\ \E api_key \in {"api_sports", "api_football", "other"}, count \in 0..1 :
        metrics' = record_teams_processed(metrics, api_key, count)
    /\ UNCHANGED <<errors, metrics_tracker, resource, calls, api_name, fpc, attempt,
                   trace, errors_at_call, mr_result, fetch_result, transVars, valVars,
                   chkVars, mainVars>>

\* MetricsTracker.record_error(api_name), as the extractors call it
RecordError ==
    /\ metrics.total_errors < MaxReports
    /\ \E api_key \in {"api_sports", "api_football"} :
        metrics' = record_error(metrics, api_key)
    /\ UNCHANGED <<errors, metrics_tracker, resource, calls, api_name, fpc, attempt,
                   trace, errors_at_call, mr_result, fetch_result, transVars, valVars,
                   chkVars, mainVars>>

\* The accumulators a run can leave behind.
ReportErrors ==
    { NoErrors,
      AppendError(NoErrors, "api_sports",
                  [msg |-> "HTTP", status |-> 500, url |-> Url("API-Sports", "teams")]),
      AppendError(AppendError(NoErrors, "validation", [msg |-> "Schema validation failed"]),
                  "load", [msg |-> "Failed to load data to BigQuery"]) }

InitReport ==
    /\ errors \in ReportErrors
    /\ FetchIdle
    /\ metrics_tracker = TRUE
    /\ resource = "teams"
    /\ TransformIdle
    /\ ValidateIdle
    /\ ChecksIdle
    /\ mpc = "idle"
    /\ m_source = "API-Sports"
    /\ api_sports_success \in BOOLEAN
    /\ api_football_success \in BOOLEAN
    /\ m_teams_data = JNull
    /\ m_standings_data = JNull
    /\ m_df = <<>>
    /\ csv_files = [s \in ApiNames |-> NotWritten]
    /\ tables = [s \in ApiNames |-> NotWritten]
    /\ notifications = <<>>
    /\ metrics_rows = <<>>
    /\ m_log = <<>>
    /\ main_result = NoResult

NextReport ==
    \/ SendPipelineStatus
    \/ SaveToBigquery
    \/ RecordTeamsProcessed
    \/ RecordError

SpecReport == InitReport /\ [][NextReport]_vars

(***************************************************************************)
(* The validator's checks called on their own (transform.py,               *)
(* DataValidator).                                                         *)
(***************************************************************************)
\* Arguments that are no payload of either source: scalars, empty
\* containers, envelopes and lists whose content is not what the checks
\* subscript.
OddPayloads ==
    { JNull, JInt(0), JInt(5), EmptyDict, JList(<<>>), JList(<<JNull>>), JList(<<JInt(1)>>),
      JDict([response |-> JNull]), JDict([response |-> JInt(1)]),
      JDict([response |-> JList(<<JNull>>)]), JDict([errors |-> JList(<<>>)]) }

CheckTeams(src) == OddPayloads \cup TeamsPayloads(src)
CheckStandings(src) == OddPayloads \cup StandingsPayloads(src)

\* Arguments of validate_team_record: records, and values that are no dict.
TeamRecordArgs ==
    {JDict(r) : r \in TeamRecords} \cup
    {JNull, JInt(5), JList(<<>>), JList(<<JStr("team_id")>>), JList(<<JStr("points")>>)}

\* DataValidator.validate_team_record called with any value.  The list
\* comprehension of line 204 is in no try block: `field not in team_data`
\* raises TypeError for None and for a number, and `team_data[field]`
\* raises TypeError for a list that holds the field name.
CallTeamRecord(errs, team_data, src) ==
    CASE team_data.t = "dict" ->
            LET v == validate_team_record(errs, team_data.d, src)
            IN  [result |-> Return([valid |-> v.valid, missing |-> v.missing]),
                 errors |-> v.errors]
      [] team_data.t \in {"null", "int"} -> [result |-> Raise("TypeError"), errors |-> errs]
      [] team_data.t = "list" ->
            IF \E i \in 1..Len(required_fields) : In(required_fields[i], team_data).v
            THEN [result |-> Raise("TypeError"), errors |-> errs]
            ELSE [result |-> Return([valid |-> FALSE, missing |-> required_fields]),
                  errors |-> AppendError(errs, "validation",
                                [src |-> src, msg |-> "Missing fields",
                                 missing |-> required_fields])]

\* One of the four payload checks is called and returns v.
CheckReturned(name, args, v) ==
    /\ chk' = name
    /\ chk_args' = args
    /\ chk_outcome' = Return(v.valid)
    /\ errors' = v.errors
    /\ UNCHANGED <<fetchVars, transVars, valVars, mainVars>>

CheckSportsResponse ==
    /\ chk = "none"
    /\ \E data \in CheckTeams("API-Sports") \cup CheckStandings("API-Sports"),
          data_type \in Resources :
           CheckReturned("validate_api_sports_response", <<data, JStr(data_type)>>,
                         validate_api_sports_response(errors, data, data_type))

CheckFootballResponse ==
    /\ chk = "none"
    /\ \E data \in CheckTeams("API-Football") \cup CheckStandings("API-Football"),
          data_type \in Resources :
           CheckReturned("validate_api_football_response", <<data, JStr(data_type)>>,
                         validate_api_football_response(errors, data, data_type))

CheckSportsSchema ==
    /\ chk = "none"
    /\ \E t_data \in CheckTeams("API-Sports"), s_data \in CheckStandings("API-Sports") :
           CheckReturned("validate_api_sports_schema", <<t_data, s_data>>,
                         validate_api_sports_schema(errors, t_data, s_data))

CheckFootballSchema ==
    /\ chk = "none"
    /\ \E t_data \in CheckTeams("API-Football"), s_data \in CheckStandings("API-Football") :
           CheckReturned("validate_api_football_schema", <<t_data, s_data>>,
                         validate_api_football_schema(errors, t_data, s_data))

CheckTeamRecord ==
    /\ chk = "none"
    /\ \E team_data \in TeamRecordArgs, src \in ApiNames :
           LET c == CallTeamRecord(errors, team_data, src)
           IN  /\ chk' = "validate_team_record"
               /\ chk_args' = <<team_data, JStr(src)>>
               /\ chk_outcome' = c.result
               /\ errors' = c.errors
    /\ UNCHANGED <<fetchVars, transVars, valVars, mainVars>>

\* A validator on a fresh accumulator, one check about to be called.
InitChecks ==
    /\ errors = NoErrors
    /\ FetchIdle
    /\ metrics_tracker = FALSE
    /\ resource = "teams"
    /\ TransformIdle
    /\ ValidateIdle
    /\ ChecksIdle
    /\ MainIdle

NextChecks ==
    \/ CheckSportsResponse
    \/ CheckFootballResponse
    \/ CheckSportsSchema
    \/ CheckFootballSchema
    \/ CheckTeamRecord

SpecChecks == InitChecks /\ [][NextChecks]_vars

(***************************************************************************)
(* Properties of the extractors, checked under SpecFetch.                  *)
(***************************************************************************)
\* The requests of the running fetch, in order, and those that failed.
Requests == SelectSeq(trace, LAMBDA e : e.ev = "request")
FailedRequests == SelectSeq(Requests, LAMBDA e : e.outcome.kind # "ok")

\* TRUE iff the first k requests all ended in a timeout or a connection failure.
TransientUpTo(k) ==
    \A i \in 1..k : Requests[i].outcome.kind \in {"timeout", "connection"}

\* The accumulator category of the extractor whose fetch is running.
OwnCategory == IF api_name = "API-Sports" THEN "api_sports" ELSE "api_football"

\* Messages the running fetch has appended to category c so far.
Appended(c) == Len(errors[c]) - Len(errors_at_call[c])

\* C1: after 0, 1 or 2 transient failures (timeouts and connection failures
\* in any mix) the fetch is still running and retries; when the next
\* response is successful, _make_request returns the payload of that
\* response and the accumulator has grown by exactly the number of failed
\* attempts.
C1_RetrySucceeds ==
    LET n == Len(Requests)
    IN  /\ (n \in 1..2 /\ TransientUpTo(n)) =>
               /\ fpc \in {"sleep", "request"}
               /\ mr_result = NoResult
        /\ (n \in 1..3 /\ TransientUpTo(n - 1) /\ Requests[n].outcome.kind = "ok") =>
               /\ mr_result = Return(Requests[n].outcome.data)
               /\ Appended(OwnCategory) = n - 1
               /\ get_total_errors(errors) - get_total_errors(errors_at_call) = n - 1
               /\ (~(api_name = "API-Football" /\ resource = "teams") =>
                       fetch_result = mr_result)

\* A fetch that returned the payload of its third response after a timeout
\* and a connection failure.
C1_Witness ==
    /\ fpc = "returned"
    /\ Len(Requests) = 3
    /\ Requests[1].outcome.kind = "timeout"
    /\ Requests[2].outcome.kind = "connection"
    /\ mr_result = Return(Requests[3].outcome.data)
    /\ Appended(OwnCategory) = 2

\* C2: a fetch never makes more than 3 requests; after 3 transient failures
\* it has raised, and what it did is exactly: request, wait 5, request,
\* wait 10, request (no wait after the third failed attempt).
C2_ExhaustionBackoff ==
    /\ Len(Requests) <= 3
    /\ (Len(Requests) = 3 /\ TransientUpTo(3)) =>
           /\ fpc = "raised"
           /\ mr_result.kind = "raise"
           /\ fetch_result.kind = "raise"
           /\ Len(trace) = 5
           /\ trace[1].ev = "request" /\ trace[3].ev = "request" /\ trace[5].ev = "request"
           /\ trace[2] = [ev |-> "sleep", secs |-> 5]
           /\ trace[4] = [ev |-> "sleep", secs |-> 10]

\* A fetch that raised after three transient failures.
C2_Witness ==
    /\ fpc = "raised"
    /\ Len(Requests) = 3
    /\ TransientUpTo(3)
    /\ Len(trace) = 5

\* C3: an HTTP status error or any other unexpected failure, on whichever
\* attempt, is the last thing the fetch does: no request and no wait follows
\* it, the fetch has raised, and the accumulator holds one message for each
\* attempt made, the last one for this attempt.
C3_NoRetryOnNonTransient ==
    \A i \in 1..Len(trace) :
        (trace[i].ev = "request"
            /\ trace[i].outcome.kind \in {"http", "unexpected", "save_error"}) =>
            /\ i = Len(trace)
            /\ fpc = "raised"
            /\ mr_result.kind = "raise"
            /\ fetch_result.kind = "raise"
            /\ (trace[i].outcome.kind = "http") = (fetch_result.exc = "HTTPError")
            /\ Appended(OwnCategory) = Len(Requests)
            /\ errors[OwnCategory][Len(errors[OwnCategory])].msg =
                   (IF trace[i].outcome.kind = "http" THEN "HTTP" ELSE "Unexpected")

\* A fetch ended by an HTTP status error on its second attempt, after one
\* retried timeout.
C3_Witness ==
    /\ fpc = "raised"
    /\ Len(Requests) = 2
    /\ Requests[1].outcome.kind = "timeout"
    /\ Requests[2].outcome.kind = "http"
    /\ Appended(OwnCategory) = 2

\* C4: in every state of a fetch, the category of the extractor's own source
\* holds what it held at the call followed by exactly one message per failed
\* attempt, and every other category is as it was at the call.
C4_OwnCategoryOnly ==
    /\ Appended(OwnCategory) = Len(FailedRequests)
    /\ SubSeq(errors[OwnCategory], 1, Len(errors_at_call[OwnCategory]))
           = errors_at_call[OwnCategory]
    /\ \A c \in Categories \ {OwnCategory} : errors[c] = errors_at_call[c]

\* The API-Football extractor has recorded three failed attempts while the
\* api_sports category already held messages of an earlier fetch.
C4_Witness ==
    /\ api_name = "API-Football"
    /\ Len(FailedRequests) = 3
    /\ FailedRequests[3].outcome.kind = "http"
    /\ Appended("api_football") = 3
    /\ errors["api_sports"] # <<>>
    /\ errors["api_sports"] = errors_at_call["api_sports"]

\* C5: when all 3 attempts fail with transient failures, fetch ends in the
\* failure of the last attempt: a Timeout after a timeout, a ConnectionError
\* after a connection failure.
C5_LastErrorSurfaced ==
    (Len(Requests) = 3 /\ TransientUpTo(3)) =>
        /\ fetch_result.kind = "raise"
        /\ fetch_result.exc =
               (IF Requests[3].outcome.kind = "timeout" THEN "Timeout" ELSE "ConnectionError")

(***************************************************************************)
(* Properties of the transformers, checked under SpecTransform.            *)
(***************************************************************************)
\* The team entries the loop runs over (once validation has passed).
Teams == TeamsList(source, teams_data)

\* The identifier a team entry carries in the source data: team.id for
\* API-Sports, team_key for API-Football; JNull when absent.
RawId(e) ==
    IF source = "API-Sports"
    THEN IF "team" \in DOMAIN e.d /\ "id" \in DOMAIN e.d.team.d THEN e.d.team.d.id ELSE JNull
    ELSE IF "team_key" \in DOMAIN e.d THEN e.d.team_key ELSE JNull

IdMissing(e) == RawId(e) = JNull

\* The identifier read as an integer, when it can be.
IdNumeric(e) ==
    \/ RawId(e).t = "int"
    \/ source = "API-Football" /\ RawId(e).t = "str" /\ RawId(e).s \in IntLiterals

JoinKey(e) == IF RawId(e).t = "int" THEN RawId(e) ELSE JInt(IntOfLiteral(RawId(e).s))

\* The entry has an identifier with no standings entry under it.
Unjoined(e) == ~IdMissing(e) /\ IdNumeric(e) /\ JoinKey(e) \notin DOMAIN standings_lookup

\* The entry joins to a standings entry.
Joined(e) ==
    /\ ~IdMissing(e) /\ IdNumeric(e) /\ Truthy(RawId(e))
    /\ JoinKey(e) \in DOMAIN standings_lookup

Standing(e) == standings_lookup[JoinKey(e)]

\* The name of the source field behind a mandatory unified field.
SourceKey(f) ==
    IF source = "API-Sports" THEN f
    ELSE CASE f = "name" -> "team_name"
           [] f = "rank" -> "overall_league_position"
           [] f = "points" -> "overall_league_PTS"

\* The value the source data holds for the mandatory field f of entry e;
\* JNull when the source does not hold one.
SourceField(e, f) ==
    LET holder == IF f = "name"
                  THEN (IF source = "API-Sports" THEN e.d.team ELSE e)
                  ELSE Standing(e)
    IN  IF SourceKey(f) \in DOMAIN holder.d THEN holder.d[SourceKey(f)] ELSE JNull

MissingMandatory(e) == {f \in {"name", "rank", "points"} : SourceField(e, f) = JNull}

Range(seq) == {seq[i] : i \in 1..Len(seq)}

\* The record field r[f] is the value v the source holds (API-Football
\* sends its numbers as strings).
SameValue(rv, v) ==
    IF source = "API-Sports" THEN rv = v
    ELSE ToInt(v).ok /\ rv = JInt(ToInt(v).v)

\* C6: every record accumulated by transform has team_id, name, rank and
\* points present and non-null, and its rank and points are the values the
\* standings entry of that team holds.
C6_EmittedOnlyIfSupplied ==
    \A i \in 1..Len(transformed) :
        LET r == transformed[i]
            st == standings_lookup[r.team_id]
        IN  /\ \A f \in {"team_id", "name", "rank", "points"} :
                   f \in DOMAIN r /\ r[f] # JNull
            /\ \A f \in {"rank", "points"} :
                   /\ SourceKey(f) \in DOMAIN st.d
                   /\ SameValue(r[f], st.d[SourceKey(f)])

\* C9: a loop iteration on a team entry whose identifier is missing, or is
\* not a key of the standings lookup, appends no record, adds exactly 1 to
\* the skip counter and leaves transform in its loop, at the next entry.
C9_JoinMissSkipped ==
    [][ (tpc = "loop" /\ idx <= Len(Teams)
            /\ (IdMissing(Teams[idx]) \/ Unjoined(Teams[idx])))
        => /\ transformed' = transformed
           /\ skipped_count' = skipped_count + 1
           /\ tpc' = "loop"
           /\ idx' = idx + 1
           /\ transform_result' = NoResult ]_vars

\* transform has returned: its first team entry had no standings entry and
\* was skipped, its second one was emitted.
C9_Witness ==
    /\ tpc = "returned"
    /\ Len(Teams) = 2
    /\ Unjoined(Teams[1])
    /\ skipped_count = 1
    /\ Len(transformed) = 1
    /\ transformed[1].team_id = JoinKey(Teams[2])

\* C10: a loop iteration on a team entry that joins to a standings entry
\* while the source holds no value for a mandatory field appends no record,
\* adds 1 to the skip counter, appends one missing-fields message naming the
\* field to the validation category, and leaves transform in its loop.
C10_MissingFieldDropped ==
    [][ (tpc = "loop" /\ idx <= Len(Teams)
            /\ Joined(Teams[idx]) /\ MissingMandatory(Teams[idx]) # {})
        => /\ transformed' = transformed
           /\ skipped_count' = skipped_count + 1
           /\ tpc' = "loop"
           /\ Len(errors'["validation"]) = Len(errors["validation"]) + 1
           /\ LET m == errors'["validation"][Len(errors'["validation"])]
              IN  /\ m.msg = "Missing fields"
                  /\ MissingMandatory(Teams[idx]) \subseteq Range(m.missing) ]_vars

\* Team entry i is one half of a well-formed pair: it joins, no other team
\* entry carries its identifier, the source holds every mandatory field and
\* every number of the standings entry can be read as an integer.
WellFormedPair(i) ==
    /\ Joined(Teams[i])
    /\ \A j \in 1..Len(Teams) : j # i => RawId(Teams[j]) # RawId(Teams[i])
    /\ MissingMandatory(Teams[i]) = {}
    /\ source = "API-Football" =>
           \A f \in {"overall_league_position", "overall_league_PTS", "overall_league_W",
                     "overall_league_D", "overall_league_L"} :
               IntField(Standing(Teams[i]), f).ok

\* The positions in the output of the records that carry the identifier of
\* team entry i.
RecordsOf(i) == {j \in 1..Len(transformed) : transformed[j].team_id = JoinKey(Teams[i])}

\* goal_diff as the claim describes it: the source's own value when it
\* supplies one, goals_for - goals_against when it does not.
GoalDiffSuppliedOrComputed(r, st) ==
    IF source = "API-Sports" /\ "goalsDiff" \in DOMAIN st.d /\ st.d.goalsDiff # JNull
    THEN r.goal_diff = st.d.goalsDiff
    ELSE /\ r.goals_for.t = "int" /\ r.goals_against.t = "int"
         /\ r.goal_diff = JInt(r.goals_for.n - r.goals_against.n)

\* goal_diff as the amended claim describes it: for API-Sports the goalsDiff
\* value of the standings entry, null when there is none; for API-Football
\* goals_for - goals_against, with all three 0 when a goals value cannot be
\* read as an integer.
GoalDiffPerSource(r, st) ==
    IF source = "API-Sports"
    THEN r.goal_diff = (IF "goalsDiff" \in DOMAIN st.d THEN st.d.goalsDiff ELSE JNull)
    ELSE LET gf == IF "overall_league_GF" \in DOMAIN st.d
                   THEN ToInt(st.d.overall_league_GF) ELSE Val(0)
             ga == IF "overall_league_GA" \in DOMAIN st.d
                   THEN ToInt(st.d.overall_league_GA) ELSE Val(0)
         IN  IF gf.ok /\ ga.ok
             THEN /\ r.goals_for = JInt(gf.v) /\ r.goals_against = JInt(ga.v)
                  /\ r.goal_diff = JInt(gf.v - ga.v)
             ELSE /\ r.goals_for = JInt(0) /\ r.goals_against = JInt(0)
                  /\ r.goal_diff = JInt(0)

\* C8 as stated: a well-formed pair yields exactly one record with its
\* team_id, whose goal_diff is the source's value when supplied and
\* goals_for - goals_against otherwise.
C8_GoalDiffSuppliedOrComputed ==
    tpc = "returned" =>
        \A i \in 1..Len(Teams) :
            WellFormedPair(i) =>
                /\ Cardinality(RecordsOf(i)) = 1
                /\ \A j \in RecordsOf(i) :
                       GoalDiffSuppliedOrComputed(transformed[j], Standing(Teams[i]))

\* C8 amended: a well-formed pair yields exactly one record with its
\* team_id; API-Sports copies goalsDiff (null when absent, never computed),
\* API-Football computes goals_for - goals_against.
C8_GoalDiffPerSource ==
    tpc = "returned" =>
        \A i \in 1..Len(Teams) :
            WellFormedPair(i) =>
                /\ Cardinality(RecordsOf(i)) = 1
                /\ \A j \in RecordsOf(i) :
                       GoalDiffPerSource(transformed[j], Standing(Teams[i]))

\* API-Sports returned the record of a well-formed pair whose standings
\* entry has no goalsDiff: goal_diff is null although goals_for and
\* goals_against are known.
C8_Witness ==
    /\ tpc = "returned"
    /\ source = "API-Sports"
    /\ \E i \in 1..Len(Teams) :
           /\ WellFormedPair(i)
           /\ "goalsDiff" \notin DOMAIN Standing(Teams[i]).d
           /\ \E j \in RecordsOf(i) :
                  /\ transformed[j].goal_diff = JNull
                  /\ transformed[j].goals_for = JInt(1)
                  /\ transformed[j].goals_against = JInt(2)

(***************************************************************************)
(* Properties of validate_team_record, checked under SpecValidate.         *)
(***************************************************************************)
AbsentOrNull(f) == f \notin DOMAIN v_record \/ v_record[f].t = "null"
AbsentOrFalsy(f) == f \notin DOMAIN v_record \/ ~Truthy(v_record[f])

\* C7 as stated: the record is invalid exactly when one of the four
\* mandatory fields is missing or falsy (absent, null, 0, ""), and the
\* returned list holds exactly those fields.
C7_FalsyIsMissing ==
    v_verdict.applied =>
        /\ v_verdict.valid = (\A f \in Range(required_fields) : ~AbsentOrFalsy(f))
        /\ \A f \in Range(required_fields) :
               (f \in Range(v_verdict.missing)) = AbsentOrFalsy(f)

\* C7 amended: the record is invalid exactly when one of the four mandatory
\* fields is absent or null, the returned list holds exactly those fields,
\* and it is empty for a valid record; 0 and "" are values like any other.
C7_AbsentOrNullIsMissing ==
    v_verdict.applied =>
        /\ v_verdict.valid = (\A f \in Range(required_fields) : ~AbsentOrNull(f))
        /\ \A f \in Range(required_fields) :
               (f \in Range(v_verdict.missing)) = AbsentOrNull(f)
        /\ Range(v_verdict.missing) \subseteq Range(required_fields)
        /\ (v_verdict.valid => v_verdict.missing = <<>>)

\* A record with points equal to 0 and an empty name has been reported
\* valid, with an empty list.
C7_Witness ==
    /\ v_verdict.applied
    /\ DOMAIN v_record = Range(required_fields)
    /\ v_record["points"] = JInt(0)
    /\ v_record["name"] = JStr("")
    /\ v_verdict.valid
    /\ v_verdict.missing = <<>>

\* The verdicts of the three checks transform runs on its arguments.
TeamsStructureOk ==
    IF source = "API-Sports"
    THEN validate_api_sports_response(NoErrors, teams_data, "teams").valid
    ELSE validate_api_football_response(NoErrors, teams_data, "teams").valid

StandingsStructureOk ==
    IF source = "API-Sports"
    THEN validate_api_sports_response(NoErrors, standings_data, "standings").valid
    ELSE validate_api_football_response(NoErrors, standings_data, "standings").valid

PairSchemaOk ==
    IF source = "API-Sports"
    THEN validate_api_sports_schema(NoErrors, teams_data, standings_data).valid
    ELSE validate_api_football_schema(NoErrors, teams_data, standings_data).valid

\* C11: once transform has started on arguments for which one of the three
\* checks returns false, it has raised ValueError with no team entry
\* processed: no record accumulated, nothing skipped, no audit file written.
C11_FailedCheckAborts ==
    (tpc # "start" /\ (~TeamsStructureOk \/ ~StandingsStructureOk \/ ~PairSchemaOk))
    => /\ tpc = "raised"
       /\ transform_result = Raise("ValueError")
       /\ transformed = <<>>
       /\ skipped_count = 0
       /\ idx = 0
       /\ output_file = NotWritten

\* API-Sports transform has raised on payloads that pass both structural
\* checks while the sample standings entry has no "all" sub-object.
C11_Witness ==
    /\ tpc = "raised"
    /\ source = "API-Sports"
    /\ TeamsStructureOk /\ StandingsStructureOk /\ ~PairSchemaOk
    /\ Len(TeamsList(source, teams_data)) >= 1
    /\ "all" \notin DOMAIN SportsStandingsList(standings_data).v.l[1].d
    /\ transform_result = Raise("ValueError")
    /\ output_file = NotWritten

(***************************************************************************)
(* Properties of the orchestration, checked under SpecMain.                *)
(***************************************************************************)
\* The steps of one source's pipeline, in order, and those main attempted
\* for a source, with their outcomes.
PipelineSteps == <<"fetch_teams", "fetch_standings", "transform", "export", "load">>
LogOf(src) == SelectSeq(m_log, LAMBDA e : e.source = src)

\* Every step of the source's pipeline was attempted and succeeded.
AllSucceeded(src) ==
    /\ Len(LogOf(src)) = Len(PipelineSteps)
    /\ \A i \in 1..Len(PipelineSteps) : LogOf(src)[i].ok

\* C12: when main has finished, each source's pipeline has been attempted
\* from its first step, in order, up to its first failing step or to its
\* end, whatever happened to the other source; and a source is marked
\* successful exactly when all its own steps succeeded.
C12_SourcesIndependent ==
    mpc = "done" =>
        \A src \in ApiNames :
            LET log == LogOf(src)
            IN  /\ Len(log) >= 1
                /\ Len(log) <= Len(PipelineSteps)
                /\ \A i \in 1..Len(log) :
                       /\ log[i].step = PipelineSteps[i]
                       /\ (i < Len(log) => log[i].ok)
                /\ (log[Len(log)].ok => Len(log) = Len(PipelineSteps))
                /\ Success(src) = AllSucceeded(src)

\* A finished run in which API-Sports failed at its first fetch after three
\* timeouts and API-Football went through all its steps and is marked
\* successful.
C12_Witness ==
    /\ mpc = "done"
    /\ LogOf("API-Sports") = <<[source |-> "API-Sports", step |-> "fetch_teams", ok |-> FALSE]>>
    /\ Len(errors["api_sports"]) = max_retries
    /\ ~api_sports_success
    /\ AllSucceeded("API-Football")
    /\ api_football_success
    /\ tables["API-Football"] # NotWritten

\* The kind of notification the two flags call for, and the kind of an
\* e-mail that was sent.
StatusKind ==
    IF api_sports_success /\ api_football_success THEN "success"
    ELSE IF api_sports_success \/ api_football_success THEN "partial"
    ELSE "critical"
KindOf(email) ==
    CASE email.status = "SUCCESS" -> "success"
      [] email.status = "PARTIAL FAILURE" -> "partial"
      [] email.status = "CRITICAL FAILURE" -> "critical"

\* C13: when main has finished, exactly one notification has been issued,
\* of kind success, partial or critical as both, one or none of the sources
\* succeeded.
C13_OneStatusNotification ==
    mpc = "done" =>
        /\ Len(notifications) = 1
        /\ KindOf(notifications[1]) = StatusKind

\* C14: a finished run in which every step of both sources succeeded and
\* nothing was recorded as an error has persisted exactly one metrics row,
\* of status success, and has sent one notification of kind success.
C14_SuccessfulRunReported ==
    (mpc = "done" /\ AllSucceeded("API-Sports") /\ AllSucceeded("API-Football")
        /\ get_total_errors(errors) = 0)
    => /\ Len(metrics_rows) = 1
       /\ metrics_rows[1].pipeline_status = "success"
       /\ Len(notifications) = 1
       /\ KindOf(notifications[1]) = "success"

(***************************************************************************)
(* Properties of the join and of the skip accounting, checked under        *)
(* SpecTransform.                                                          *)
(***************************************************************************)
\* C15: no two records of the sequence transform returns carry the same
\* team_id.
C15_UniqueTeamIds ==
    tpc = "returned" =>
        \A i, j \in 1..Len(transformed) :
            i # j => transformed[i].team_id # transformed[j].team_id

\* The keys of the standings lookup that no team entry joins to.
UnmatchedStandings ==
    {k \in DOMAIN standings_lookup :
        \A i \in 1..Len(Teams) : ~(Joined(Teams[i]) /\ JoinKey(Teams[i]) = k)}

\* The team entries without a standings entry under their identifier.
UnmatchedTeams == {i \in 1..Len(Teams) : Unjoined(Teams[i])}

\* C16 as stated: misses on both sides are counted, so when transform
\* returns the skipped count covers, besides the team entries that gave no
\* record, one for every standings entry no team entry joins to.
C16_BothSidesCounted ==
    tpc = "returned" =>
        /\ \A k \in UnmatchedStandings :
               \A j \in 1..Len(transformed) : transformed[j].team_id # k
        /\ skipped_count =
               (Len(Teams) - Len(transformed)) + Cardinality(UnmatchedStandings)

\* C16 amended: the join is driven by the team entries. Neither kind of
\* miss produces a record; every team entry is either emitted or counted
\* as skipped, a team entry without a standings entry being among those
\* counted, and standings entries that no team entry joins to are not
\* counted.
C16_TeamSideCounted ==
    tpc = "returned" =>
        /\ \A k \in UnmatchedStandings :
               \A j \in 1..Len(transformed) : transformed[j].team_id # k
        /\ \A i \in UnmatchedTeams : RecordsOf(i) = {}
        /\ skipped_count = Len(Teams) - Len(transformed)
        /\ skipped_count >= Cardinality(UnmatchedTeams)

\* transform has returned from two team entries and two standings entries
\* of which one pair joins: the team entry without a standings entry is the
\* only one counted, the standings entry without a team entry is not.
C16_Witness ==
    /\ tpc = "returned"
    /\ Len(Teams) = 2
    /\ Cardinality(UnmatchedStandings) = 1
    /\ Cardinality(UnmatchedTeams) = 1
    /\ Len(transformed) = 1
    /\ skipped_count = 1

\* C17 as stated: every skip leaves a message in the transformation
\* category, so that category holds at least as many messages as entries
\* were skipped.
C17_SkipsInTransformation ==
    tpc \in {"loop", "returned"} => Len(errors["transformation"]) >= skipped_count

\* C17 amended: every skip leaves exactly one message, in the validation
\* category when the record failed validate_team_record and in the
\* transformation category otherwise; the two categories together hold as
\* many messages as entries were skipped.
C17_SkipsInTwoCategories ==
    tpc \in {"loop", "returned"} =>
        /\ Len(errors["transformation"]) + Len(errors["validation"]) = skipped_count
        /\ \A i \in 1..Len(errors["validation"]) :
               errors["validation"][i].msg = "Missing fields"
        /\ \A i \in 1..Len(errors["transformation"]) :
               errors["transformation"][i].msg # "Missing fields"
        /\ \A c \in Categories \ {"transformation", "validation"} : errors[c] = <<>>

\* transform has returned having skipped two entries, one for a join miss
\* and one for a failed record validation: one message in each category.
C17_Witness ==
    /\ tpc = "returned"
    /\ skipped_count = 2
    /\ Len(errors["validation"]) = 1
    /\ Len(errors["transformation"]) = 1
    /\ errors["transformation"][1].msg = "No standings for team"

\* The three checks at the head of transform pass on its arguments.
ChecksPass == TeamsStructureOk /\ StandingsStructureOk /\ PairSchemaOk

\* C18: once the three checks have passed, transform does not raise
\* whatever single entry of either payload is malformed, and when it
\* returns every well-formed, joinable team entry has its record.
C18_EntryFaultsContained ==
    (ChecksPass /\ tpc # "start") =>
        /\ tpc # "raised"
        /\ tpc = "returned" =>
               \A i \in 1..Len(Teams) : WellFormedPair(i) => RecordsOf(i) # {}

\* The entries of the standings payload the lookup is built from.
StandingsEntries ==
    IF source = "API-Sports" THEN SportsStandingsList(standings_data).v.l
    ELSE standings_data.l

\* The team identifier a standings entry carries: team.id for API-Sports,
\* team_id for API-Football; JNull when absent.
StandingsRawId(e) ==
    IF source = "API-Sports"
    THEN IF "team" \in DOMAIN e.d /\ "id" \in DOMAIN e.d.team.d THEN e.d.team.d.id ELSE JNull
    ELSE IF "team_id" \in DOMAIN e.d THEN e.d.team_id ELSE JNull

\* The lookup keys of the standings entries whose identifier is present and
\* numeric.
NumericStandingsKeys ==
    {IF StandingsRawId(e).t = "int" THEN StandingsRawId(e)
     ELSE JInt(IntOfLiteral(StandingsRawId(e).s)) :
        e \in {x \in Range(StandingsEntries) :
                  \/ StandingsRawId(x).t = "int"
                  \/ /\ source = "API-Football" /\ StandingsRawId(x).t = "str"
                     /\ StandingsRawId(x).s \in IntLiterals}}

\* C20: when the checks have passed on a standings payload whose entries
\* are all objects, building the lookup does not make transform raise and
\* the lookup has a key for exactly the entries whose team identifier is
\* present and numeric: an entry without one, or with a non-numeric one,
\* adds no key.
C20_BadStandingsIdSkipped ==
    (ChecksPass /\ tpc # "start" /\ \A e \in Range(StandingsEntries) : IsDict(e)) =>
        /\ tpc # "raised"
        /\ DOMAIN standings_lookup = NumericStandingsKeys

(***************************************************************************)
(* Properties of the validator's checks, checked under SpecChecks.         *)
(***************************************************************************)
\* The verdict of a check that has returned: validate_team_record returns
\* a pair, the other checks a boolean.
ReturnedFalse ==
    /\ chk_outcome.kind = "return"
    /\ IF chk = "validate_team_record" THEN ~chk_outcome.data.valid ELSE ~chk_outcome.data

\* C19: a check that has been called, on any argument, has returned (no
\* exception has escaped it), and when it has returned false the validation
\* category holds at least one message and no other category holds any.
C19_ChecksFailClosed ==
    chk # "none" =>
        /\ chk_outcome.kind = "return"
        /\ ReturnedFalse =>
               /\ Len(errors["validation"]) >= 1
               /\ \A c \in Categories \ {"validation"} : errors[c] = <<>>

(***************************************************************************)
(* Accounting and order of the records, checked under SpecTransform and    *)
(* SpecTransformTwice.                                                     *)
(***************************************************************************)
\* C24: every team entry is accounted for exactly once. While transform is
\* in its loop the records emitted plus the entries skipped are the entries
\* already visited, and when it returns they are all the entries of the
\* teams payload.
C24_EveryEntryAccounted ==
    /\ tpc = "loop" => Len(transformed) + skipped_count = idx - 1
    /\ tpc = "returned" =>
           /\ ChecksPass
           /\ Len(transformed) + skipped_count = Len(Teams)

\* transform has returned from two team entries, one emitted and one
\* skipped.
C24_Witness ==
    /\ tpc = "returned"
    /\ Len(Teams) = 2
    /\ Len(transformed) = 1
    /\ skipped_count = 1

\* The strictly increasing maps from the positions of the output records to
\* the positions of the team entries.
Embeddings ==
    {f \in [1..Len(transformed) -> 1..Len(Teams)] :
        \A i, j \in 1..Len(transformed) : i < j => f[i] < f[j]}

\* The team identifiers of the output are a subsequence of those of the
\* teams payload, in their original order.
OrderPreserved ==
    \E f \in Embeddings :
        \A j \in 1..Len(transformed) :
            /\ ~IdMissing(Teams[f[j]])
            /\ IdNumeric(Teams[f[j]])
            /\ transformed[j].team_id = JoinKey(Teams[f[j]])

\* C21: the records accumulated by transform carry, in order, identifiers
\* of a subsequence of the team entries; and a second call on the same
\* arguments ends as the first one did, returning an equal record sequence
\* (or raising the same exception) and leaving an equal audit file.
C21_OrderedAndDeterministic ==
    /\ tpc \in {"loop", "returned"} => OrderPreserved
    /\ (first_call # NoResult /\ tpc \in {"returned", "raised"}) =>
           transform_result = first_call
    /\ (first_call # NoResult /\ tpc = "returned") => output_file = Written(first_call.data)

\* A second call has returned, as the first one did, the record of the
\* second of two team entries, the first one having been skipped in both
\* calls: the accumulator holds the two messages of those skips.
C21_Witness ==
    /\ tpc = "returned"
    /\ first_call = transform_result
    /\ Len(Teams) = 2
    /\ Len(transformed) = 1
    /\ transformed[1].team_id = JoinKey(Teams[2])
    /\ Len(errors["transformation"]) = 2

(***************************************************************************)
(* Order of the steps of main, checked under SpecMain.                     *)
(***************************************************************************)
\* The step of the source has been attempted and has returned.
Returned(src, step) ==
    \E i \in 1..Len(m_log) : m_log[i] = [source |-> src, step |-> step, ok |-> TRUE]

\* The pipeline of the source has ended: its load returned, or one of its
\* steps raised.
Ended(src) ==
    \E i \in 1..Len(m_log) :
        /\ m_log[i].source = src
        /\ (m_log[i].step = "load" \/ ~m_log[i].ok)

\* main moves to the step of the source.
Starts(src, step) ==
    /\ mpc' = step /\ m_source' = src
    /\ ~(mpc = step /\ m_source = src)

\* C22: in every step of main, for each source: the standings fetch starts
\* from the teams fetch, which returned; transform starts when both fetches
\* have returned; the load starts when transform has returned; the flag of
\* the source is set by the step in which its load returns; and the first
\* fetch of API-Football starts when the pipeline of API-Sports has ended.
C22_StepsOrdered ==
    [][ \A src \in ApiNames :
          /\ Starts(src, "fetch_standings") =>
                 /\ mpc = "fetch_teams" /\ m_source = src
                 /\ Returned(src, "fetch_teams")'
          /\ Starts(src, "transform") =>
                 /\ mpc = "fetch_standings" /\ m_source = src
                 /\ Returned(src, "fetch_teams")' /\ Returned(src, "fetch_standings")'
          /\ Starts(src, "load") =>
                 /\ m_source = src
                 /\ Returned(src, "transform")'
                 /\ ~Returned(src, "load")
          /\ (Success(src)' /\ ~Success(src)) =>
                 /\ mpc = "load" /\ m_source = src
                 /\ ~Returned(src, "load") /\ Returned(src, "load")'
                 /\ tables'[src] # NotWritten
          /\ (Success(src) => Success(src)')
          /\ Starts("API-Football", "fetch_teams") =>
                 /\ m_source = "API-Sports"
                 /\ ~Ended("API-Sports") /\ Ended("API-Sports")'
                 /\ LogOf("API-Football")' = <<>>
      ]_vars

\* A finished run in which both pipelines went through their five steps:
\* the log holds the steps of API-Sports, in order, then those of
\* API-Football.
C22_Witness ==
    /\ mpc = "done"
    /\ api_sports_success /\ api_football_success
    /\ m_log = [i \in 1..10 |->
                   [source |-> IF i <= 5 THEN "API-Sports" ELSE "API-Football",
                    step |-> PipelineSteps[IF i <= 5 THEN i ELSE i - 5],
                    ok |-> TRUE]]

(***************************************************************************)
(* Exactness of the metrics, checked under SpecFetch.                      *)
(***************************************************************************)
\* The call counter of a source.
CallsOf(m, api) ==
    IF api = "API-Sports" THEN m.api_sports_calls ELSE m.api_football_calls

\* The step is an attempt of the source that obtained a successful
\* response: the request returned, its status was no error and its body
\* was parsed (saving it to save_file may still fail afterwards).
SuccessfulAttempt(api) ==
    /\ api_name = api
    /\ fpc = "request"
    /\ Len(trace') = Len(trace) + 1
    /\ trace'[Len(trace')].ev = "request"
    /\ trace'[Len(trace')].outcome.kind \in {"ok", "save_error"}

\* C23: with a metrics tracker injected, in every reachable state the error
\* count of each source is the number of messages in that source's error
\* category and total_errors is their sum; the call counters start at 0
\* and every step adds 1 to the call counter of a source exactly when it is
\* an attempt of that source that obtained a successful response.
C23_MetricsExact ==
    /\ [](metrics_tracker =>
            /\ metrics.api_sports_errors = Len(errors["api_sports"])
            /\ metrics.api_football_errors = Len(errors["api_football"])
            /\ metrics.total_errors =
                   metrics.api_sports_errors + metrics.api_football_errors
            /\ (calls = 0 => \A api \in ApiNames : CallsOf(metrics, api) = 0))
    /\ [][ metrics_tracker =>
             \A api \in ApiNames :
                 CallsOf(metrics', api) =
                     CallsOf(metrics, api) + (IF SuccessfulAttempt(api) THEN 1 ELSE 0)
         ]_vars

\* With a tracker injected, a fetch of API-Sports succeeded after two
\* timeouts and a fetch of API-Football then failed while saving a
\* successful response: two calls, three errors.
C23_Witness ==
    /\ metrics_tracker
    /\ fpc = "raised"
    /\ api_name = "API-Football"
    /\ Requests[Len(Requests)].outcome.kind = "save_error"
    /\ metrics = [api_sports_calls |-> 1, api_football_calls |-> 1,
                  api_sports_errors |-> 2, api_football_errors |-> 1,
                  teams_processed_api_sports |-> 0, teams_processed_api_football |-> 0,
                  total_errors |-> 3]
    /\ Len(errors["api_sports"]) = 2
    /\ Len(errors["api_football"]) = 1

====
